---- MODULE Spec2Model ----
(***************************************************************************)
(* Model of the wire codec of wtransport-proto: the synchronous buffer     *)
(* cursors (bytes.rs), the transactional child cursor, the asynchronous    *)
(* get-varint task and the stream-header framing (stream.rs).              *)
(*                                                                         *)
(* A byte is a number in 0..255.  A u64 (the inner value of a VarInt) is   *)
(* kept as its eight big-endian bytes, so that all 62 bits of a varint are *)
(* represented exactly.                                                    *)
(***************************************************************************)
EXTENDS Integers, Sequences, FiniteSets, TLC

(***************************************************************************)
(* Bounds of the model.                                                    *)
(***************************************************************************)
\* Buffers over the whole alphabet are enumerated up to this length.
MaxLen == 2
\* Up to how many Ok(0) answers of a faulty sink are counted.
MaxZeros == 1
\* Largest len passed to get_bytes / skip.
MaxReq == 2

(***************************************************************************)
(* u64 arithmetic on eight big-endian bytes.                               *)
(***************************************************************************)
Zeros(n) == [i \in 1..n |-> 0]

\* VarInt::from_u32 (model: n < 2^31, the range of TLC's integers).
from_u32(n) ==
  <<0, 0, 0, 0, (n \div 16777216) % 256, (n \div 65536) % 256,
    (n \div 256) % 256, n % 256>>

\* a < b on u64 values (most significant byte first).
RECURSIVE U64LessFrom(_, _, _)
U64LessFrom(a, b, i) ==
  IF i > 8 THEN FALSE
  ELSE IF a[i] # b[i] THEN a[i] < b[i]
  ELSE U64LessFrom(a, b, i + 1)

U64Less(a, b) == U64LessFrom(a, b, 1)
U64Le(a, b) == ~U64Less(b, a)

\* a - b on u64 values, for a >= b (byte-wise with borrow).
RECURSIVE U64SubFrom(_, _, _, _)
U64SubFrom(a, b, i, borrow) ==
  IF i = 0 THEN <<>>
  ELSE LET d == a[i] - b[i] - borrow
       IN  U64SubFrom(a, b, i - 1, IF d < 0 THEN 1 ELSE 0)
             \o <<IF d < 0 THEN d + 256 ELSE d>>

U64Sub(a, b) == U64SubFrom(a, b, 8, 0)

\* a % m on a u64 value, for a small modulus m.
RECURSIVE U64ModFrom(_, _, _, _)
U64ModFrom(a, m, i, acc) ==
  IF i > 8 THEN acc
  ELSE U64ModFrom(a, m, i + 1, (acc * 256 + a[i]) % m)

U64Mod(a, m) == U64ModFrom(a, m, 1, 0)

(***************************************************************************)
(* VarInt (varint.rs) and the octets varint primitives.                    *)
(***************************************************************************)
\* VarInt::MAX_SIZE.
MAX_SIZE == 8

\* VarInt::MAX = 2^62 - 1.
VARINT_MAX == <<63, 255, 255, 255, 255, 255, 255, 255>>

\* VarInt::parse_size: the two most significant bits of the first byte.
parse_size(first) ==
  CASE first \div 64 = 0 -> 1
    [] first \div 64 = 1 -> 2
    [] first \div 64 = 2 -> 4
    [] OTHER -> 8

\* VarInt::size: the encoded length of a value.
size(v) ==
  IF U64Le(v, from_u32(63)) THEN 1
  ELSE IF U64Le(v, from_u32(16383)) THEN 2
  ELSE IF U64Le(v, from_u32(1073741823)) THEN 4
  ELSE 8

\* A decoder that keeps the two length bits in the number.
decode_varint_unmasked(b) == Zeros(MAX_SIZE - Len(b)) \o b

\* Octets::get_varint on exactly parse_size(b[1]) bytes: the big-endian
\* number with the two length bits masked off.
decode_varint(b) ==
  CASE Len(b) = 1 -> Zeros(7) \o b
    [] Len(b) = 2 -> Zeros(6) \o <<b[1] % 64, b[2]>>
    [] Len(b) = 4 -> Zeros(4) \o <<b[1] % 64, b[2], b[3], b[4]>>
    [] OTHER -> <<b[1] % 64>> \o SubSeq(b, 2, 8)

\* OctetsMut::put_varint_with_len, for n >= size(v): the low n bytes of the
\* big-endian number with the length bits set in the first byte.
put_varint_with_len(v, n) ==
  LET low == SubSeq(v, 8 - n + 1, 8)
      tagbits == CASE n = 1 -> 0 [] n = 2 -> 64 [] n = 4 -> 128 [] OTHER -> 192
  IN  <<low[1] + tagbits>> \o SubSeq(low, 2, n)

\* OctetsMut::put_varint: the value on size(v) bytes.
encode_varint(v) == put_varint_with_len(v, size(v))

(***************************************************************************)
(* Results.  Every result is a record with a tag, so that any two results  *)
(* can be compared.                                                        *)
(***************************************************************************)
None == [tag |-> "None", val |-> <<>>]
Some(x) == [tag |-> "Some", val |-> x]

(***************************************************************************)
(* BufferReader (bytes.rs): a buffer and an offset into it.                *)
(***************************************************************************)
BufferReader_new(buffer) == [impl |-> "BufferReader", buffer |-> buffer, offset |-> 0]

capacity(r) == Len(r.buffer) - r.offset

buffer_remaining(r) == SubSeq(r.buffer, r.offset + 1, Len(r.buffer))

\* skip moving to the end of the buffer before it fails.
skip_clamped(r, len) ==
  IF len > capacity(r)
    THEN [ok |-> FALSE, reader |-> [r EXCEPT !.offset = Len(r.buffer)]]
    ELSE [ok |-> TRUE, reader |-> [r EXCEPT !.offset = r.offset + len]]

\* BufferReader::skip: [ok, reader].
skip(r, len) ==
  IF len > capacity(r)
    THEN [ok |-> FALSE, reader |-> r]
    ELSE [ok |-> TRUE, reader |-> [r EXCEPT !.offset = r.offset + len]]

\* Mutant of BufferReader_get_varint: the first byte is consumed before the
\* capacity check, so a failed read leaves the offset advanced by one.
BufferReader_get_varint_eager(r) ==
  IF capacity(r) < 1
    THEN [res |-> None, reader |-> r]
    ELSE LET len == parse_size(r.buffer[r.offset + 1])
         IN  IF len > capacity(r)
               THEN [res |-> None, reader |-> [r EXCEPT !.offset = r.offset + 1]]
               ELSE [res |-> Some(decode_varint(
                                    SubSeq(r.buffer, r.offset + 1, r.offset + len))),
                     reader |-> [r EXCEPT !.offset = r.offset + len]]

\* <BufferReader as BytesReader>::get_varint: [res, reader].
BufferReader_get_varint(r) ==
  IF capacity(r) < 1
    THEN [res |-> None, reader |-> r]
    ELSE LET len == parse_size(r.buffer[r.offset + 1])
         IN  IF len > capacity(r)
               THEN [res |-> None, reader |-> r]
               ELSE [res |-> Some(decode_varint(
                                    SubSeq(r.buffer, r.offset + 1, r.offset + len))),
                     reader |-> [r EXCEPT !.offset = r.offset + len]]

\* Mutant of BufferReader_get_bytes: an off-by-one capacity check, which
\* refuses to read the last len bytes of the buffer.
BufferReader_get_bytes_strict(r, len) ==
  IF capacity(r) <= len
    THEN [res |-> None, reader |-> r]
    ELSE [res |-> Some(SubSeq(r.buffer, r.offset + 1, r.offset + len)),
          reader |-> [r EXCEPT !.offset = r.offset + len]]

\* <BufferReader as BytesReader>::get_bytes: [res, reader].
BufferReader_get_bytes(r, len) ==
  IF capacity(r) < len
    THEN [res |-> None, reader |-> r]
    ELSE [res |-> Some(SubSeq(r.buffer, r.offset + 1, r.offset + len)),
          reader |-> [r EXCEPT !.offset = r.offset + len]]

(***************************************************************************)
(* impl BytesReader for &[u8] (bytes.rs): the reader is the slice itself,  *)
(* and reading re-slices it.  Kept as a record with offset 0 throughout.   *)
(***************************************************************************)
Slice_new(bytes) == [impl |-> "slice", buffer |-> bytes, offset |-> 0]

\* <&[u8] as BytesReader>::get_varint: [res, reader].
Slice_get_varint(s) ==
  IF Len(s.buffer) = 0
    THEN [res |-> None, reader |-> s]
    ELSE LET varint_size == parse_size(s.buffer[1])
         IN  IF Len(s.buffer) < varint_size
               THEN [res |-> None, reader |-> s]
               ELSE LET inner == BufferReader_get_varint(
                                   BufferReader_new(SubSeq(s.buffer, 1, varint_size)))
                    IN  [res |-> IF inner.res.tag = "None"
                                   THEN [tag |-> "Panic", val |-> <<>>]
                                   ELSE inner.res,
                         reader |-> [s EXCEPT !.buffer =
                                       SubSeq(s.buffer, varint_size + 1, Len(s.buffer))]]

\* Mutant of Slice_get_bytes: a request beyond the end of the slice returns
\* the bytes that are left.
Slice_get_bytes_clamped(s, len) ==
  IF Len(s.buffer) < len
    THEN [res |-> Some(s.buffer), reader |-> [s EXCEPT !.buffer = <<>>]]
    ELSE [res |-> Some(SubSeq(s.buffer, 1, len)),
          reader |-> [s EXCEPT !.buffer = SubSeq(s.buffer, len + 1, Len(s.buffer))]]

\* <&[u8] as BytesReader>::get_bytes: [res, reader].
Slice_get_bytes(s, len) ==
  IF Len(s.buffer) < len
    THEN [res |-> None, reader |-> s]
    ELSE [res |-> Some(SubSeq(s.buffer, 1, len)),
          reader |-> [s EXCEPT !.buffer = SubSeq(s.buffer, len + 1, Len(s.buffer))]]

\* BytesReader::get_varint, dispatched on the implementing type.
get_varint(r) ==
  IF r.impl = "slice" THEN Slice_get_varint(r) ELSE BufferReader_get_varint(r)

\* BytesReader::get_bytes, dispatched on the implementing type.
get_bytes(r, len) ==
  IF r.impl = "slice" THEN Slice_get_bytes(r, len) ELSE BufferReader_get_bytes(r, len)

\* Bytes a reader has consumed since it was created over `bytes`.
consumed(r, bytes) == Len(bytes) - capacity(r)

(***************************************************************************)
(* StreamKind and SessionId (stream.rs, ids.rs).                           *)
(***************************************************************************)
CONTROL_STREAM == from_u32(0)
QPACK_ENCODER_STREAM == from_u32(2)
QPACK_DECODER_STREAM == from_u32(3)
WEBTRANSPORT_STREAM == from_u32(84)

Control == [tag |-> "Control", id |-> <<>>]
QPackEncoder == [tag |-> "QPackEncoder", id |-> <<>>]
QPackDecoder == [tag |-> "QPackDecoder", id |-> <<>>]
WebTransport == [tag |-> "WebTransport", id |-> <<>>]
Exercise(id) == [tag |-> "Exercise", id |-> id]

\* Mutant of is_id_exercise: without the remainder test.
is_id_exercise_loose(id) == U64Le(from_u32(33), id)

\* StreamKind::is_id_exercise: id >= 0x21 && (id - 0x21) % 0x1f == 0.
is_id_exercise(id) ==
  /\ U64Le(from_u32(33), id)
  /\ U64Mod(U64Sub(id, from_u32(33)), 31) = 0

\* Mutant of parse: without the exercise arm.
parse_known(id) ==
  CASE id = CONTROL_STREAM -> Some(Control)
    [] id = QPACK_ENCODER_STREAM -> Some(QPackEncoder)
    [] id = QPACK_DECODER_STREAM -> Some(QPackDecoder)
    [] id = WEBTRANSPORT_STREAM -> Some(WebTransport)
    [] OTHER -> None

\* Mutant of parse: the two QPACK arms exchanged.
parse_swapped(id) ==
  CASE id = CONTROL_STREAM -> Some(Control)
    [] id = QPACK_ENCODER_STREAM -> Some(QPackDecoder)
    [] id = QPACK_DECODER_STREAM -> Some(QPackEncoder)
    [] id = WEBTRANSPORT_STREAM -> Some(WebTransport)
    [] OTHER -> IF is_id_exercise(id) THEN Some(Exercise(id)) ELSE None

\* StreamKind::parse: the match arms in order.
parse(id) ==
  CASE id = CONTROL_STREAM -> Some(Control)
    [] id = QPACK_ENCODER_STREAM -> Some(QPackEncoder)
    [] id = QPACK_DECODER_STREAM -> Some(QPackDecoder)
    [] id = WEBTRANSPORT_STREAM -> Some(WebTransport)
    [] OTHER -> IF is_id_exercise(id) THEN Some(Exercise(id)) ELSE None

\* StreamKind::id.
kind_id(kind) ==
  CASE kind.tag = "Control" -> CONTROL_STREAM
    [] kind.tag = "QPackEncoder" -> QPACK_ENCODER_STREAM
    [] kind.tag = "QPackDecoder" -> QPACK_DECODER_STREAM
    [] kind.tag = "WebTransport" -> WEBTRANSPORT_STREAM
    [] OTHER -> kind.id

\* SessionId::try_from_varint: a session id is the id of a client-initiated
\* bidirectional stream, i.e. its two low bits are zero.
try_from_varint(v) ==
  IF v[8] % 4 = 0 THEN [tag |-> "Ok", val |-> v]
  ELSE [tag |-> "Err", val |-> "InvalidSessionId"]

\* SessionId::into_varint.
into_varint(session_id) == session_id

(***************************************************************************)
(* StreamHeader (stream.rs).                                               *)
(***************************************************************************)
Ok(x) == [tag |-> "Ok", val |-> x]
Err(e) == [tag |-> "Err", val |-> e]

\* The debug assertions of StreamHeader::new.
new_debug_assert(kind, session_id) ==
  IF kind.tag = "Exercise" THEN is_id_exercise(kind.id)
  ELSE IF kind.tag = "WebTransport" THEN session_id.tag = "Some"
  ELSE TRUE

\* Mutant of StreamHeader_new: the session id is not stored.
StreamHeader_new_forgetful(kind, session_id) == [kind |-> kind, session_id |-> None]

\* StreamHeader::new.
StreamHeader_new(kind, session_id) == [kind |-> kind, session_id |-> session_id]

\* StreamHeader::new_control.
new_control == StreamHeader_new(Control, None)

\* StreamHeader::new_webtransport.
new_webtransport(session_id) == StreamHeader_new(WebTransport, Some(session_id))

\* StreamHeader::session_id: Some for WebTransport (panics if the field is
\* absent), None for every other kind.
session_id(h) ==
  IF h.kind.tag = "WebTransport"
    THEN IF h.session_id.tag = "None" THEN [tag |-> "Panic", val |-> <<>>] ELSE h.session_id
    ELSE None

\* Mutant of StreamHeader_read: a WebTransport discriminant whose session id
\* is not fully there is reported as InvalidSessionId instead of None.
StreamHeader_read_hasty(bytes_reader) ==
  LET g1 == get_varint(bytes_reader)
  IN  IF g1.res.tag = "None" THEN [res |-> None, reader |-> g1.reader]
      ELSE LET kind == parse(g1.res.val)
           IN  IF kind.tag = "None"
                 THEN [res |-> Some(Err("UnknownStream")), reader |-> g1.reader]
               ELSE IF kind.val.tag = "WebTransport"
                 THEN LET g2 == get_varint(g1.reader)
                      IN  IF g2.res.tag = "None" \/ try_from_varint(g2.res.val).tag = "Err"
                            THEN [res |-> Some(Err("InvalidSessionId")),
                                  reader |-> g2.reader]
                            ELSE [res |-> Some(Ok(StreamHeader_new(
                                             kind.val, Some(g2.res.val)))),
                                  reader |-> g2.reader]
               ELSE [res |-> Some(Ok(StreamHeader_new(kind.val, None))),
                     reader |-> g1.reader]

\* Mutant of StreamHeader_read: when the session id is incomplete the reader
\* is put back to where the read started.
StreamHeader_read_rewinding(bytes_reader) ==
  LET g1 == get_varint(bytes_reader)
  IN  IF g1.res.tag = "None" THEN [res |-> None, reader |-> g1.reader]
      ELSE LET kind == parse(g1.res.val)
           IN  IF kind.tag = "None"
                 THEN [res |-> Some(Err("UnknownStream")), reader |-> g1.reader]
               ELSE IF kind.val.tag = "WebTransport"
                 THEN LET g2 == get_varint(g1.reader)
                      IN  IF g2.res.tag = "None"
                            THEN [res |-> None, reader |-> bytes_reader]
                          ELSE IF try_from_varint(g2.res.val).tag = "Err"
                            THEN [res |-> Some(Err("InvalidSessionId")),
                                  reader |-> g2.reader]
                          ELSE [res |-> Some(Ok(StreamHeader_new(
                                           kind.val, Some(g2.res.val)))),
                                reader |-> g2.reader]
               ELSE [res |-> Some(Ok(StreamHeader_new(kind.val, None))),
                     reader |-> g1.reader]

\* Mutant of StreamHeader_read: on a content error the reader is put back to
\* where the read started.
StreamHeader_read_restoring(bytes_reader) ==
  LET g1 == get_varint(bytes_reader)
  IN  IF g1.res.tag = "None" THEN [res |-> None, reader |-> g1.reader]
      ELSE LET kind == parse(g1.res.val)
           IN  IF kind.tag = "None"
                 THEN [res |-> Some(Err("UnknownStream")), reader |-> bytes_reader]
               ELSE IF kind.val.tag = "WebTransport"
                 THEN LET g2 == get_varint(g1.reader)
                      IN  IF g2.res.tag = "None"
                            THEN [res |-> None, reader |-> g2.reader]
                          ELSE IF try_from_varint(g2.res.val).tag = "Err"
                            THEN [res |-> Some(Err("InvalidSessionId")),
                                  reader |-> bytes_reader]
                          ELSE [res |-> Some(Ok(StreamHeader_new(
                                           kind.val, Some(g2.res.val)))),
                                reader |-> g2.reader]
               ELSE [res |-> Some(Ok(StreamHeader_new(kind.val, None))),
                     reader |-> g1.reader]

\* Mutant of StreamHeader_read: a second varint is read for every kind.
StreamHeader_read_greedy(bytes_reader) ==
  LET g1 == get_varint(bytes_reader)
  IN  IF g1.res.tag = "None" THEN [res |-> None, reader |-> g1.reader]
      ELSE LET kind == parse(g1.res.val)
               g2 == get_varint(g1.reader)
           IN  IF kind.tag = "None"
                 THEN [res |-> Some(Err("UnknownStream")), reader |-> g1.reader]
               ELSE IF g2.res.tag = "None" THEN [res |-> None, reader |-> g2.reader]
               ELSE IF kind.val.tag # "WebTransport"
                 THEN [res |-> Some(Ok(StreamHeader_new(kind.val, None))),
                       reader |-> g2.reader]
               ELSE IF try_from_varint(g2.res.val).tag = "Err"
                 THEN [res |-> Some(Err("InvalidSessionId")), reader |-> g2.reader]
               ELSE [res |-> Some(Ok(StreamHeader_new(kind.val, Some(g2.res.val)))),
                     reader |-> g2.reader]

\* StreamHeader::read: [res, reader], res an Option<Result<header, error>>.
StreamHeader_read(bytes_reader) ==
  LET g1 == get_varint(bytes_reader)
  IN  IF g1.res.tag = "None" THEN [res |-> None, reader |-> g1.reader]
      ELSE LET kind == parse(g1.res.val)
           IN  IF kind.tag = "None"
                 THEN [res |-> Some(Err("UnknownStream")), reader |-> g1.reader]
               ELSE IF kind.val.tag = "WebTransport"
                 THEN LET g2 == get_varint(g1.reader)
                      IN  IF g2.res.tag = "None" THEN [res |-> None, reader |-> g2.reader]
                          ELSE LET sid == try_from_varint(g2.res.val)
                               IN  IF sid.tag = "Err"
                                     THEN [res |-> Some(Err("InvalidSessionId")),
                                           reader |-> g2.reader]
                                     ELSE [res |-> Some(Ok(StreamHeader_new(
                                                      kind.val, Some(sid.val)))),
                                           reader |-> g2.reader]
               ELSE [res |-> Some(Ok(StreamHeader_new(kind.val, None))),
                     reader |-> g1.reader]

\* Mutant of child: the child is a plain copy of the parent, offset included.
child_copy(parent) == parent

\* BufferReader::child / BufferReaderChild::with_parent: the child's own
\* reader over the parent's remaining bytes.
child(parent) == BufferReader_new(buffer_remaining(parent))

\* Mutant of commit: the child's offset is taken as an absolute position
\* of the parent's buffer and skipped from the parent's current offset.
commit_absolute(parent, child_reader) ==
  skip(parent, parent.offset + child_reader.offset)

\* BufferReaderChild::commit: parent.skip(child.offset()).expect(..):
\* [ok, reader], ok = FALSE being the expect's panic.
commit(parent, child_reader) == skip(parent, child_reader.offset)

\* Mutant of read_from_buffer: the header is read on the parent itself,
\* without a child.
read_from_buffer_direct(buffer_reader) ==
  LET r == StreamHeader_read(buffer_reader)
  IN  [res |-> r.res, reader |-> r.reader, panic |-> FALSE]

\* Mutant of read_from_buffer: an incomplete header is reported as a content
\* error.
read_from_buffer_strict(buffer_reader) ==
  LET buffer_reader_child == child(buffer_reader)
      r == StreamHeader_read(buffer_reader_child)
  IN  IF r.res.tag = "None"
        THEN [res |-> Some(Err("UnknownStream")), reader |-> buffer_reader,
              panic |-> FALSE]
      ELSE IF r.res.val.tag = "Ok"
        THEN LET c == commit(buffer_reader, r.reader)
             IN  [res |-> r.res, reader |-> c.reader, panic |-> ~c.ok]
        ELSE [res |-> r.res, reader |-> buffer_reader, panic |-> FALSE]

\* Mutant of read_from_buffer: bytes left in the buffer after a complete
\* header are reported as a content error.
read_from_buffer_exact(buffer_reader) ==
  LET buffer_reader_child == child(buffer_reader)
      r == StreamHeader_read(buffer_reader_child)
  IN  IF r.res.tag = "None" THEN [res |-> None, reader |-> buffer_reader, panic |-> FALSE]
      ELSE IF r.res.val.tag = "Ok" /\ capacity(r.reader) > 0
        THEN [res |-> Some(Err("UnknownStream")), reader |-> buffer_reader,
              panic |-> FALSE]
      ELSE IF r.res.val.tag = "Ok"
        THEN LET c == commit(buffer_reader, r.reader)
             IN  [res |-> r.res, reader |-> c.reader, panic |-> ~c.ok]
        ELSE [res |-> r.res, reader |-> buffer_reader, panic |-> FALSE]

\* StreamHeader::read_from_buffer: [res, reader, panic].
read_from_buffer(buffer_reader) ==
  LET buffer_reader_child == child(buffer_reader)
      r == StreamHeader_read(buffer_reader_child)
  IN  IF r.res.tag = "None" THEN [res |-> None, reader |-> buffer_reader, panic |-> FALSE]
      ELSE IF r.res.val.tag = "Ok"
        THEN LET c == commit(buffer_reader, r.reader)
             IN  [res |-> r.res, reader |-> c.reader, panic |-> ~c.ok]
        ELSE [res |-> r.res, reader |-> buffer_reader, panic |-> FALSE]

(***************************************************************************)
(* BufferWriter and impl BytesWriter for Vec<u8> (bytes.rs).               *)
(***************************************************************************)
BufferWriter_new(bytes) == [impl |-> "BufferWriter", buffer |-> bytes, offset |-> 0]

Vec_new == [impl |-> "Vec", buffer |-> <<>>, offset |-> 0]

\* put_bytes storing the bytes that fit before it fails.
BufferWriter_put_bytes_partial(w, bytes) ==
  IF capacity(w) < Len(bytes)
    THEN [ok |-> FALSE,
          writer |-> [w EXCEPT
            !.buffer = SubSeq(w.buffer, 1, w.offset) \o SubSeq(bytes, 1, capacity(w)),
            !.offset = Len(w.buffer)]]
    ELSE [ok |-> TRUE,
          writer |-> [w EXCEPT
            !.buffer = SubSeq(w.buffer, 1, w.offset) \o bytes
                         \o SubSeq(w.buffer, w.offset + Len(bytes) + 1, Len(w.buffer)),
            !.offset = w.offset + Len(bytes)]]

\* <BufferWriter as BytesWriter>::put_bytes: [ok, writer]; ok = FALSE is
\* Err(EndOfBuffer).
BufferWriter_put_bytes(w, bytes) ==
  IF capacity(w) < Len(bytes)
    THEN [ok |-> FALSE, writer |-> w]
    ELSE [ok |-> TRUE,
          writer |-> [w EXCEPT
            !.buffer = SubSeq(w.buffer, 1, w.offset) \o bytes
                         \o SubSeq(w.buffer, w.offset + Len(bytes) + 1, Len(w.buffer)),
            !.offset = w.offset + Len(bytes)]]

\* <BufferWriter as BytesWriter>::put_varint: [ok, writer].
BufferWriter_put_varint(w, varint) ==
  IF capacity(w) < size(varint)
    THEN [ok |-> FALSE, writer |-> w]
    ELSE BufferWriter_put_bytes(w, encode_varint(varint))

\* put_varint on a Vec<u8> that writes over the vector from its start.
Vec_put_varint_overwrite(vec, varint) ==
  LET resized == vec.buffer \o Zeros(size(varint))
      w == BufferWriter_put_varint(BufferWriter_new(resized), varint)
  IN  [ok |-> TRUE, panic |-> ~w.ok, writer |-> [vec EXCEPT !.buffer = w.writer.buffer]]

\* <Vec<u8> as BytesWriter>::put_varint: [ok, writer, panic]; the vector is
\* resized by varint.size() and the varint written into the new tail.
Vec_put_varint(vec, varint) ==
  LET offset == Len(vec.buffer)
      resized == vec.buffer \o Zeros(size(varint))
      w == BufferWriter_put_varint(
             BufferWriter_new(SubSeq(resized, offset + 1, Len(resized))), varint)
  IN  [ok |-> TRUE,
       panic |-> ~w.ok,
       writer |-> [vec EXCEPT !.buffer = SubSeq(resized, 1, offset) \o w.writer.buffer]]

\* <Vec<u8> as BytesWriter>::put_bytes: [ok, writer, panic].
Vec_put_bytes(vec, bytes) ==
  [ok |-> TRUE, panic |-> FALSE, writer |-> [vec EXCEPT !.buffer = vec.buffer \o bytes]]

\* BytesWriter::put_varint, dispatched on the implementing type:
\* [ok, writer, panic].
put_varint(w, varint) ==
  IF w.impl = "Vec" THEN Vec_put_varint(w, varint)
  ELSE LET r == BufferWriter_put_varint(w, varint)
       IN  [ok |-> r.ok, panic |-> FALSE, writer |-> r.writer]

\* BytesWriter::put_bytes, dispatched on the implementing type:
\* [ok, writer, panic].
put_bytes(w, bytes) ==
  IF w.impl = "Vec" THEN Vec_put_bytes(w, bytes)
  ELSE LET r == BufferWriter_put_bytes(w, bytes)
       IN  [ok |-> r.ok, panic |-> FALSE, writer |-> r.writer]

\* Mutant of StreamHeader_write: the session id is written before the
\* discriminant.
StreamHeader_write_swapped(h, bytes_writer) ==
  LET sid == session_id(h)
      p1 == IF sid.tag = "Some" THEN put_varint(bytes_writer, into_varint(sid.val))
            ELSE [ok |-> TRUE, panic |-> FALSE, writer |-> bytes_writer]
  IN  IF ~p1.ok \/ p1.panic THEN p1 ELSE put_varint(p1.writer, kind_id(h.kind))

\* StreamHeader::write: [ok, writer, panic].
StreamHeader_write(h, bytes_writer) ==
  LET p1 == put_varint(bytes_writer, kind_id(h.kind))
  IN  IF ~p1.ok \/ p1.panic THEN p1
      ELSE LET sid == session_id(h)
           IN  IF sid.tag = "Panic" THEN [p1 EXCEPT !.panic = TRUE]
               ELSE IF sid.tag = "Some"
                 THEN put_varint(p1.writer, into_varint(sid.val))
                 ELSE p1

\* StreamHeader::write_size.
write_size(h) ==
  LET sid == session_id(h)
  IN  IF sid.tag = "Some"
        THEN size(kind_id(h.kind)) + size(into_varint(sid.val))
        ELSE size(kind_id(h.kind))

\* write_to_buffer without the check of the capacity.
write_to_buffer_unchecked(h, buffer_writer) == StreamHeader_write(h, buffer_writer)

\* StreamHeader::write_to_buffer: [ok, writer, panic]; the panic is the
\* expect on the result of write.
write_to_buffer(h, buffer_writer) ==
  IF capacity(buffer_writer) < write_size(h)
    THEN [ok |-> FALSE, panic |-> FALSE, writer |-> buffer_writer]
    ELSE LET w == StreamHeader_write(h, buffer_writer)
         IN  [ok |-> TRUE, panic |-> w.panic \/ ~w.ok, writer |-> w.writer]

(***************************************************************************)
(* The asynchronous adapter (bytes.rs, mod async).                         *)
(*                                                                         *)
(* A source is a finite byte stream: it hands out the bytes of `data` in   *)
(* order and, once they are exhausted, reports its terminal condition      *)
(* `term`: end of file (a zero-byte transfer) or an I/O error of that      *)
(* kind.  impl "slice" is the in-memory &[u8] source, impl "stream" any    *)
(* transport, which may also return Pending and transfer fewer bytes.      *)
(***************************************************************************)
Pending == [tag |-> "Pending", val |-> <<>>]
Ready(x) == [tag |-> "Ready", val |-> x]

\* A panic: a failed assertion, expect or slice-length check.
Panic == [tag |-> "Panic", val |-> <<>>]

\* A poll that does not return: its loop repeats an iteration that changes
\* nothing.
Hang == [tag |-> "Hang", val |-> <<>>]

Min(a, b) == IF a < b THEN a ELSE b

\* zeros and errors count the zero-byte transfers and the errors the source
\* has reported to the task that borrows it, panics the times its poll_read
\* panicked.
Source(impl, data, term) ==
  [impl |-> impl, data |-> data, pos |-> 0, term |-> term,
   zeros |-> 0, errors |-> 0, panics |-> 0, pended |-> None]

available(src) == Len(src.data) - src.pos

\* A transfer of k bytes from the source: [res, bytes, src].
transfer(src, k) ==
  [res |-> Ready(Ok(k)),
   bytes |-> SubSeq(src.data, src.pos + 1, src.pos + k),
   src |-> [src EXCEPT !.pos = src.pos + k,
                       !.zeros = IF k = 0 THEN @ + 1 ELSE @,
                       !.pended = None]]

\* poll_read returning Ready(Err(kind)).
failure(src) ==
  [res |-> Ready(Err(src.term)), bytes |-> <<>>, src |-> [src EXCEPT !.errors = @ + 1, !.pended = None]]

\* <&[u8] as AsyncRead>::poll_read with a caller buffer of n bytes:
\* buf.copy_from_slice(a) panics unless a is empty or as long as buf.
Slice_poll_read(src, n) ==
  IF 0 < available(src) /\ available(src) < n
    THEN {[res |-> Panic, bytes |-> <<>>, src |-> [src EXCEPT !.panics = @ + 1, !.pended = None]]}
    ELSE {transfer(src, Min(available(src), n))}

\* AsyncRead::poll_read of a transport with a caller buffer of n bytes: the
\* set of its possible answers.
Stream_poll_read(src, n) ==
  {[res |-> Pending, bytes |-> <<>>, src |-> [src EXCEPT !.pended = Some(n)]]}
    \cup IF n = 0 THEN {transfer(src, 0)}
         ELSE IF available(src) > 0
           THEN {transfer(src, k) : k \in 1..Min(available(src), n)}
         ELSE IF src.term = "eof" THEN {transfer(src, 0)}
         ELSE {failure(src)}

\* AsyncRead::poll_read, dispatched on the implementing type.
poll_read(src, n) ==
  IF src.impl = "slice" THEN Slice_poll_read(src, n) ELSE Stream_poll_read(src, n)

\* A conversion that maps every error kind to Closed.
IoError_from_flat(kind) == "Closed"

\* impl From<std::io::Error> for IoError.
IoError_from(kind) == IF kind = "NotConnected" THEN "NotConnected" ELSE "Closed"

\* GetVarint::new.
GetVarint_new == [buffer |-> Zeros(MAX_SIZE), offset |-> 0, varint_size |-> 0]

\* buffer[from..] = bytes
Store(buffer, from, bytes) ==
  [i \in 1..Len(buffer) |->
     IF i > from /\ i <= from + Len(bytes) THEN bytes[i - from] ELSE buffer[i]]

\* The outcome of one poll: what it returns, the task and the source (or
\* sink) after it, and how many transfers it made.
Outcome(ret, this, io, reads) == [ret |-> ret, task |-> this, io |-> io, reads |-> reads]

\* Mutant of GetVarint_rest: every transfer is stored at the start of the
\* scratch buffer instead of at buffer[offset..].
RECURSIVE GetVarint_rest_clobber(_, _, _)
GetVarint_rest_clobber(this, src, reads) ==
  IF this.offset < this.varint_size
    THEN UNION {
           IF o.res.tag = "Pending" THEN {Outcome(Pending, this, o.src, reads)}
           ELSE IF o.res.tag = "Panic" THEN {Outcome(Panic, this, o.src, reads)}
           ELSE IF o.res.val.tag = "Err"
             THEN {Outcome(Ready(Err(IoError_from(o.res.val.val))), this, o.src, reads)}
           ELSE IF o.res.val.val > 0
             THEN UNION {GetVarint_rest_clobber(t, o.src, reads + 1) :
                           t \in {[this EXCEPT
                                     !.buffer = Store(this.buffer, 0, o.bytes),
                                     !.offset = this.offset + o.res.val.val]}}
           ELSE {Outcome(Ready(Err("Closed")), this, o.src, reads)}
           : o \in poll_read(src, this.varint_size - this.offset)}
    ELSE LET g == BufferReader_get_varint(
                    BufferReader_new(SubSeq(this.buffer, 1, this.varint_size)))
         IN  {Outcome(IF g.res.tag = "None" THEN [tag |-> "Panic", val |-> <<>>]
                      ELSE Ready(Ok(g.res.val)),
                      this, src, reads)}

\* Mutant of GetVarint_rest: every request asks for all the room left in the
\* scratch buffer instead of varint_size - offset bytes.
RECURSIVE GetVarint_rest_overread(_, _, _)
GetVarint_rest_overread(this, src, reads) ==
  IF this.offset < this.varint_size
    THEN UNION {
           IF o.res.tag = "Pending" THEN {Outcome(Pending, this, o.src, reads)}
           ELSE IF o.res.tag = "Panic" THEN {Outcome(Panic, this, o.src, reads)}
           ELSE IF o.res.val.tag = "Err"
             THEN {Outcome(Ready(Err(IoError_from(o.res.val.val))), this, o.src, reads)}
           ELSE IF o.res.val.val > 0
             THEN UNION {GetVarint_rest_overread(t, o.src, reads + 1) :
                           t \in {[this EXCEPT
                                     !.buffer = Store(this.buffer, this.offset, o.bytes),
                                     !.offset = this.offset + o.res.val.val]}}
           ELSE {Outcome(Ready(Err("Closed")), this, o.src, reads)}
           : o \in poll_read(src, MAX_SIZE - this.offset)}
    ELSE LET g == BufferReader_get_varint(
                    BufferReader_new(SubSeq(this.buffer, 1, this.varint_size)))
         IN  {Outcome(IF g.res.tag = "None" THEN [tag |-> "Panic", val |-> <<>>]
                      ELSE Ready(Ok(g.res.val)),
                      this, src, reads)}

\* <GetVarint as Future>::poll, from the `while this.offset < this.varint_size`
\* loop on: the set of outcomes over the source's possible answers; t is the
\* task after a transfer.
RECURSIVE GetVarint_rest(_, _, _)
GetVarint_rest(this, src, reads) ==
  IF this.offset < this.varint_size
    THEN UNION {
           IF o.res.tag = "Pending" THEN {Outcome(Pending, this, o.src, reads)}
           ELSE IF o.res.tag = "Panic" THEN {Outcome(Panic, this, o.src, reads)}
           ELSE IF o.res.val.tag = "Err"
             THEN {Outcome(Ready(Err(IoError_from(o.res.val.val))), this, o.src, reads)}
           ELSE IF o.res.val.val > 0
             THEN UNION {GetVarint_rest(t, o.src, reads + 1) :
                           t \in {[this EXCEPT
                                     !.buffer = Store(this.buffer, this.offset, o.bytes),
                                     !.offset = this.offset + o.res.val.val]}}
           ELSE {Outcome(Ready(Err("Closed")), this, o.src, reads)}
           : o \in poll_read(src, this.varint_size - this.offset)}
    ELSE LET g == BufferReader_get_varint(
                    BufferReader_new(SubSeq(this.buffer, 1, this.varint_size)))
         IN  {Outcome(IF g.res.tag = "None" THEN [tag |-> "Panic", val |-> <<>>]
                      ELSE Ready(Ok(g.res.val)),
                      this, src, reads)}

\* Mutant of GetVarint_poll: a zero-byte transfer on the first-byte request
\* suspends the task.
GetVarint_poll_patient(this, src) ==
  IF this.offset = 0
    THEN UNION {
           IF o.res.tag = "Pending" THEN {Outcome(Pending, this, o.src, 0)}
           ELSE IF o.res.tag = "Panic" THEN {Outcome(Panic, this, o.src, 0)}
           ELSE IF o.res.val.tag = "Err"
             THEN {Outcome(Ready(Err(IoError_from(o.res.val.val))), this, o.src, 0)}
           ELSE IF o.res.val.val = 1
             THEN UNION {GetVarint_rest(t, o.src, 1) :
                           t \in {[this EXCEPT
                                     !.buffer = Store(this.buffer, 0, o.bytes),
                                     !.offset = 1,
                                     !.varint_size = parse_size(o.bytes[1])]}}
           ELSE {Outcome(Pending, this, o.src, 0)}
           : o \in poll_read(src, 1)}
    ELSE GetVarint_rest(this, src, 0)

\* <GetVarint as Future>::poll: the first-byte phase, then the loop.
GetVarint_poll(this, src) ==
  IF this.offset = 0
    THEN UNION {
           IF o.res.tag = "Pending" THEN {Outcome(Pending, this, o.src, 0)}
           ELSE IF o.res.tag = "Panic" THEN {Outcome(Panic, this, o.src, 0)}
           ELSE IF o.res.val.tag = "Err"
             THEN {Outcome(Ready(Err(IoError_from(o.res.val.val))), this, o.src, 0)}
           ELSE IF o.res.val.val = 1
             THEN UNION {GetVarint_rest(t, o.src, 1) :
                           t \in {[this EXCEPT
                                     !.buffer = Store(this.buffer, 0, o.bytes),
                                     !.offset = 1,
                                     !.varint_size = parse_size(o.bytes[1])]}}
           ELSE {Outcome(Ready(Err("Closed")), this, o.src, 0)}
           : o \in poll_read(src, 1)}
    ELSE GetVarint_rest(this, src, 0)

(***************************************************************************)
(* A sink accepts bytes until `room` bytes have been written and then      *)
(* reports the I/O error `term`.  impl "Vec" is the in-memory Vec<u8> sink *)
(* (never full), impl "stream" any transport, which may also return        *)
(* Pending and accept fewer bytes than offered.                            *)
(***************************************************************************)
\* zeros and errors count the zero-byte writes (for a non-empty request) and
\* the errors the sink has reported to the task that borrows it; a faulty
\* sink is one that breaks the contract "never Ok(0) if buf.len() > 0".
Sink(impl, room, term) ==
  [impl |-> impl, written |-> <<>>, room |-> room, term |-> term,
   faulty |-> FALSE, zeros |-> 0, errors |-> 0, panics |-> 0, pended |-> None]

\* k bytes of buf accepted by the sink: [res, sink].
accept(sink, buf, k) ==
  [res |-> Ready(Ok(k)),
   sink |-> [sink EXCEPT !.written = sink.written \o SubSeq(buf, 1, k),
                         !.pended = None]]

\* <Vec<u8> as AsyncWrite>::poll_write.
Vec_poll_write(sink, buf) == {accept(sink, buf, Len(buf))}

\* AsyncWrite::poll_write of a transport: the set of its possible answers.
Stream_poll_write(sink, buf) ==
  {[res |-> Pending, sink |-> [sink EXCEPT !.pended = Some(Len(buf))]]}
    \cup (IF Len(buf) = 0 THEN {accept(sink, buf, 0)}
          ELSE IF Len(sink.written) < sink.room
            THEN {accept(sink, buf, k) :
                    k \in 1..Min(Len(buf), sink.room - Len(sink.written))}
          ELSE {[res |-> Ready(Err(sink.term)),
                 sink |-> [sink EXCEPT !.errors = @ + 1, !.pended = None]]})
    \cup (IF Len(buf) > 0 /\ sink.faulty
            THEN {[res |-> Ready(Ok(0)),
                   sink |-> [sink EXCEPT !.zeros = Min(@ + 1, MaxZeros),
                                         !.pended = None]]}
          ELSE {})

\* AsyncWrite::poll_write, dispatched on the implementing type.
poll_write(sink, buf) ==
  IF sink.impl = "Vec" THEN Vec_poll_write(sink, buf) ELSE Stream_poll_write(sink, buf)

\* GetBuffer::new with a destination of n bytes.
GetBuffer_new(n) == [buffer |-> Zeros(n), offset |-> 0]

\* GetBuffer::poll writing every transfer at the start of the destination.
RECURSIVE GetBuffer_poll_restart(_, _, _)
GetBuffer_poll_restart(this, src, reads) ==
  IF this.offset < Len(this.buffer)
    THEN UNION {
           IF o.res.tag = "Pending" THEN {Outcome(Pending, this, o.src, reads)}
           ELSE IF o.res.tag = "Panic" THEN {Outcome(Panic, this, o.src, reads)}
           ELSE IF o.res.val.tag = "Err"
             THEN {Outcome(Ready(Err(IoError_from(o.res.val.val))), this, o.src, reads)}
           ELSE IF o.res.val.val > 0
             THEN UNION {GetBuffer_poll_restart(t, o.src, reads + 1) :
                           t \in {[this EXCEPT
                                     !.buffer = Store(this.buffer, 0, o.bytes),
                                     !.offset = this.offset + o.res.val.val]}}
           ELSE {Outcome(Ready(Err("Closed")), this, o.src, reads)}
           : o \in poll_read(src, Len(this.buffer) - this.offset)}
    ELSE {Outcome(Ready(Ok(<<>>)), this, src, reads)}

\* GetBuffer::poll taking a zero-byte transfer for the end of the work.
RECURSIVE GetBuffer_poll_lenient(_, _, _)
GetBuffer_poll_lenient(this, src, reads) ==
  IF this.offset < Len(this.buffer)
    THEN UNION {
           IF o.res.tag = "Pending" THEN {Outcome(Pending, this, o.src, reads)}
           ELSE IF o.res.tag = "Panic" THEN {Outcome(Panic, this, o.src, reads)}
           ELSE IF o.res.val.tag = "Err"
             THEN {Outcome(Ready(Err(IoError_from(o.res.val.val))), this, o.src, reads)}
           ELSE IF o.res.val.val > 0
             THEN UNION {GetBuffer_poll_lenient(t, o.src, reads + 1) :
                           t \in {[this EXCEPT
                                     !.buffer = Store(this.buffer, this.offset, o.bytes),
                                     !.offset = this.offset + o.res.val.val]}}
           ELSE {Outcome(Ready(Ok(<<>>)), this, o.src, reads)}
           : o \in poll_read(src, Len(this.buffer) - this.offset)}
    ELSE {Outcome(Ready(Ok(<<>>)), this, src, reads)}

\* <GetBuffer as Future>::poll: the set of outcomes over the source's
\* possible answers; t is the task after a transfer.
RECURSIVE GetBuffer_poll(_, _, _)
GetBuffer_poll(this, src, reads) ==
  IF this.offset < Len(this.buffer)
    THEN UNION {
           IF o.res.tag = "Pending" THEN {Outcome(Pending, this, o.src, reads)}
           ELSE IF o.res.tag = "Panic" THEN {Outcome(Panic, this, o.src, reads)}
           ELSE IF o.res.val.tag = "Err"
             THEN {Outcome(Ready(Err(IoError_from(o.res.val.val))), this, o.src, reads)}
           ELSE IF o.res.val.val > 0
             THEN UNION {GetBuffer_poll(t, o.src, reads + 1) :
                           t \in {[this EXCEPT
                                     !.buffer = Store(this.buffer, this.offset, o.bytes),
                                     !.offset = this.offset + o.res.val.val]}}
           ELSE {Outcome(Ready(Err("Closed")), this, o.src, reads)}
           : o \in poll_read(src, Len(this.buffer) - this.offset)}
    ELSE {Outcome(Ready(Ok(<<>>)), this, src, reads)}

\* cfg!(debug_assertions): whether debug_assert! is compiled in.  It is fixed
\* by the build and never changes.
VARIABLE debug_assertions

\* PutVarint::new: the varint is encoded once into the 8-byte scratch.
PutVarint_new(varint) ==
  LET w == BufferWriter_put_varint(BufferWriter_new(Zeros(MAX_SIZE)), varint)
  IN  [buffer |-> w.writer.buffer, offset |-> 0, varint_size |-> w.writer.offset,
       panic |-> ~w.ok]

\* PutVarint::poll offering the encoding from its start on every write.
RECURSIVE PutVarint_poll_resend(_, _, _)
PutVarint_poll_resend(this, sink, writes) ==
  IF this.offset < this.varint_size
    THEN UNION {
           IF o.res.tag = "Pending" THEN {Outcome(Pending, this, o.sink, writes)}
           ELSE IF o.res.val.tag = "Err"
             THEN {Outcome(Ready(Err(IoError_from(o.res.val.val))), this, o.sink, writes)}
           ELSE IF debug_assertions /\ o.res.val.val = 0
             THEN {Outcome(Panic, this, o.sink, writes)}
           ELSE IF o.res.val.val = 0 /\ [o.sink EXCEPT !.pended = sink.pended] = sink
             THEN {Outcome(Hang, this, o.sink, writes)}
           ELSE UNION {PutVarint_poll_resend(t, o.sink, writes + 1) :
                         t \in {[this EXCEPT !.offset = this.offset + o.res.val.val]}}
           : o \in poll_write(sink, SubSeq(this.buffer, 1, this.varint_size - this.offset))}
    ELSE {Outcome(Ready(Ok(this.varint_size)), this, sink, writes)}

\* <PutVarint as Future>::poll: the set of outcomes over the sink's answers.
RECURSIVE PutVarint_poll(_, _, _)
PutVarint_poll(this, sink, writes) ==
  IF this.offset < this.varint_size
    THEN UNION {
           IF o.res.tag = "Pending" THEN {Outcome(Pending, this, o.sink, writes)}
           ELSE IF o.res.val.tag = "Err"
             THEN {Outcome(Ready(Err(IoError_from(o.res.val.val))), this, o.sink, writes)}
           ELSE IF debug_assertions /\ o.res.val.val = 0
             THEN {Outcome(Panic, this, o.sink, writes)}
           ELSE IF o.res.val.val = 0 /\ [o.sink EXCEPT !.pended = sink.pended] = sink
             THEN {Outcome(Hang, this, o.sink, writes)}
           ELSE UNION {PutVarint_poll(t, o.sink, writes + 1) :
                         t \in {[this EXCEPT !.offset = this.offset + o.res.val.val]}}
           : o \in poll_write(sink, SubSeq(this.buffer, this.offset + 1, this.varint_size))}
    ELSE {Outcome(Ready(Ok(this.varint_size)), this, sink, writes)}

\* PutBuffer::new.
PutBuffer_new(buffer) == [buffer |-> buffer, offset |-> 0]

\* PutBuffer::poll forgetting its progress when the sink answers Pending.
RECURSIVE PutBuffer_poll_rewinding(_, _, _)
PutBuffer_poll_rewinding(this, sink, writes) ==
  IF this.offset < Len(this.buffer)
    THEN UNION {
           IF o.res.tag = "Pending"
             THEN {Outcome(Pending, [this EXCEPT !.offset = 0], o.sink, writes)}
           ELSE IF o.res.val.tag = "Err"
             THEN {Outcome(Ready(Err(IoError_from(o.res.val.val))), this, o.sink, writes)}
           ELSE IF debug_assertions /\ o.res.val.val = 0
             THEN {Outcome(Panic, this, o.sink, writes)}
           ELSE IF o.res.val.val = 0 /\ [o.sink EXCEPT !.pended = sink.pended] = sink
             THEN {Outcome(Hang, this, o.sink, writes)}
           ELSE UNION {PutBuffer_poll_rewinding(t, o.sink, writes + 1) :
                         t \in {[this EXCEPT !.offset = this.offset + o.res.val.val]}}
           : o \in poll_write(sink, SubSeq(this.buffer, this.offset + 1, Len(this.buffer)))}
    ELSE {Outcome(Ready(Ok(<<>>)), this, sink, writes)}

\* <PutBuffer as Future>::poll: the set of outcomes over the sink's answers.
\* debug_assert!(written > 0) panics in a build with debug assertions; in a
\* build without them the loop goes on with the offset unchanged.  After a
\* zero-byte write that leaves the sink as it was the loop is in the state
\* it was in before the write: it repeats that write for ever (Hang) or goes
\* on as the other answers of the sink have it.
RECURSIVE PutBuffer_poll(_, _, _)
PutBuffer_poll(this, sink, writes) ==
  IF this.offset < Len(this.buffer)
    THEN UNION {
           IF o.res.tag = "Pending" THEN {Outcome(Pending, this, o.sink, writes)}
           ELSE IF o.res.val.tag = "Err"
             THEN {Outcome(Ready(Err(IoError_from(o.res.val.val))), this, o.sink, writes)}
           ELSE IF debug_assertions /\ o.res.val.val = 0
             THEN {Outcome(Panic, this, o.sink, writes)}
           ELSE IF o.res.val.val = 0 /\ [o.sink EXCEPT !.pended = sink.pended] = sink
             THEN {Outcome(Hang, this, o.sink, writes)}
           ELSE UNION {PutBuffer_poll(t, o.sink, writes + 1) :
                         t \in {[this EXCEPT !.offset = this.offset + o.res.val.val]}}
           : o \in poll_write(sink, SubSeq(this.buffer, this.offset + 1, Len(this.buffer)))}
    ELSE {Outcome(Ready(Ok(<<>>)), this, sink, writes)}

(***************************************************************************)
(* StreamHeader::read_async and StreamHeader::write_async (stream.rs): the *)
(* coroutine's position `pc`, the kind it has parsed, and the inner task   *)
(* it is awaiting.                                                         *)
(***************************************************************************)
StreamHeaderErr(e) == [tag |-> "StreamHeader", val |-> e]
IO(e) == [tag |-> "IO", val |-> e]

IdleTask == [buffer |-> <<>>, offset |-> 0, varint_size |-> 0]

ReadAsync_new == [pc |-> "start", kind |-> None]

CoOutcome(ret, co, this, io, reads) ==
  [ret |-> ret, co |-> co, task |-> this, io |-> io, reads |-> reads]

Finished(co) == [co EXCEPT !.pc = "done"]

\* read_async reporting a failed session-id read as InvalidSessionId.
ReadAsync_session_conflating(co, this, src, reads) ==
  {IF o.ret.tag = "Pending" THEN CoOutcome(Pending, co, o.task, o.io, reads + o.reads)
   ELSE IF o.ret.tag = "Panic"
     THEN CoOutcome(Panic, Finished(co), o.task, o.io, reads + o.reads)
   ELSE IF o.ret.val.tag = "Err"
     THEN CoOutcome(Ready(Err(StreamHeaderErr("InvalidSessionId"))), Finished(co),
                    o.task, o.io, reads + o.reads)
   ELSE LET sid == try_from_varint(o.ret.val.val)
        IN  CoOutcome(
              IF sid.tag = "Err" THEN Ready(Err(StreamHeaderErr("InvalidSessionId")))
              ELSE Ready(Ok(StreamHeader_new(co.kind.val, Some(sid.val)))),
              Finished(co), o.task, o.io, reads + o.reads)
   : o \in GetVarint_poll(this, src)}

\* read_async at `reader.get_varint().await` for the session id.
ReadAsync_session(co, this, src, reads) ==
  {IF o.ret.tag = "Pending" THEN CoOutcome(Pending, co, o.task, o.io, reads + o.reads)
   ELSE IF o.ret.tag = "Panic"
     THEN CoOutcome(Panic, Finished(co), o.task, o.io, reads + o.reads)
   ELSE IF o.ret.val.tag = "Err"
     THEN CoOutcome(Ready(Err(IO(o.ret.val.val))), Finished(co), o.task, o.io,
                    reads + o.reads)
   ELSE LET sid == try_from_varint(o.ret.val.val)
        IN  CoOutcome(
              IF sid.tag = "Err" THEN Ready(Err(StreamHeaderErr("InvalidSessionId")))
              ELSE Ready(Ok(StreamHeader_new(co.kind.val, Some(sid.val)))),
              Finished(co), o.task, o.io, reads + o.reads)
   : o \in GetVarint_poll(this, src)}

\* One poll of the future of StreamHeader::read_async.
ReadAsync_poll(co, this, src) ==
  IF co.pc = "session_id" THEN ReadAsync_session(co, this, src, 0)
  ELSE UNION {
         IF o.ret.tag = "Pending"
           THEN {CoOutcome(Pending, [co EXCEPT !.pc = "kind"], o.task, o.io, o.reads)}
         ELSE IF o.ret.tag = "Panic"
           THEN {CoOutcome(Panic, Finished(co), o.task, o.io, o.reads)}
         ELSE IF o.ret.val.tag = "Err"
           THEN {CoOutcome(Ready(Err(IO(o.ret.val.val))), Finished(co), o.task, o.io,
                           o.reads)}
         ELSE LET kind == parse(o.ret.val.val)
              IN  IF kind.tag = "None"
                    THEN {CoOutcome(Ready(Err(StreamHeaderErr("UnknownStream"))),
                                    Finished(co), o.task, o.io, o.reads)}
                  ELSE IF kind.val.tag = "WebTransport"
                    THEN ReadAsync_session([pc |-> "session_id", kind |-> kind],
                                           GetVarint_new, o.io, o.reads)
                  ELSE {CoOutcome(Ready(Ok(StreamHeader_new(kind.val, None))),
                                  Finished(co), o.task, o.io, o.reads)}
         : o \in GetVarint_poll(IF co.pc = "start" THEN GetVarint_new ELSE this, src)}

WriteAsync_new == [pc |-> "start", kind |-> None]

\* write_async at `writer.put_varint(session_id.into_varint()).await`.
WriteAsync_session(co, this, sink, writes) ==
  {IF o.ret.tag = "Pending" THEN CoOutcome(Pending, co, o.task, o.io, writes + o.reads)
   ELSE IF o.ret.tag = "Panic"
     THEN CoOutcome(Panic, Finished(co), o.task, o.io, writes + o.reads)
   ELSE IF o.ret.val.tag = "Err"
     THEN CoOutcome(Ready(Err(o.ret.val.val)), Finished(co), o.task, o.io,
                    writes + o.reads)
   ELSE CoOutcome(Ready(Ok(<<>>)), Finished(co), o.task, o.io, writes + o.reads)
   : o \in PutVarint_poll(this, sink, 0)}

\* One poll of the future of StreamHeader::write_async for header h.
WriteAsync_poll(h, co, this, sink) ==
  IF co.pc = "session_id" THEN WriteAsync_session(co, this, sink, 0)
  ELSE UNION {
         IF o.ret.tag = "Pending"
           THEN {CoOutcome(Pending, [co EXCEPT !.pc = "kind"], o.task, o.io, o.reads)}
         ELSE IF o.ret.tag = "Panic"
           THEN {CoOutcome(Panic, Finished(co), o.task, o.io, o.reads)}
         ELSE IF o.ret.val.tag = "Err"
           THEN {CoOutcome(Ready(Err(o.ret.val.val)), Finished(co), o.task, o.io, o.reads)}
         ELSE LET sid == session_id(h)
              IN  IF sid.tag = "Panic"
                    THEN {CoOutcome(Panic, Finished(co), o.task, o.io, o.reads)}
                  ELSE IF sid.tag = "Some"
                    THEN WriteAsync_session([co EXCEPT !.pc = "session_id"],
                                            PutVarint_new(into_varint(sid.val)),
                                            o.io, o.reads)
                  ELSE {CoOutcome(Ready(Ok(<<>>)), Finished(co), o.task, o.io, o.reads)}
         : o \in PutVarint_poll(IF co.pc = "start" THEN PutVarint_new(kind_id(h.kind))
                                ELSE this, sink, 0)}

(***************************************************************************)
(* Inputs: the byte sequences the cursors are created over.                *)
(***************************************************************************)
\* Bytes of every length class (0x00..0x3f, 0x40.., 0x80.., 0xc0..), the
\* discriminants, and low bytes that make valid and invalid session ids.
Alphabet == {0, 1, 2, 33, 64, 84, 128, 192}

ShortInputs == UNION {[1..k -> Alphabet] : k \in 0..MaxLen}

\* Discriminant values: Control, WebTransport, an unknown one (0x42), and
\* exercise ids (0x21, 2^56).
KindValues ==
  {from_u32(0), from_u32(84), from_u32(66), from_u32(33), <<1, 0, 0, 0, 0, 0, 0, 0>>}

\* The QPACK discriminants.
QPackValues == {from_u32(2), from_u32(3)}

\* Session-id values: valid (low two bits zero) and invalid ones.
SessionValues ==
  {from_u32(0), from_u32(1), <<63, 255, 255, 255, 255, 255, 255, 252>>, VARINT_MAX}

VarintLens == {1, 2, 4, 8}

\* tests::utils::VARINT_TEST_CASES: the sample encodings and their values
\* (151288809941952652, 494878333, 15293, 37).
VARINT_TEST_CASES ==
  {[bytes |-> <<194, 25, 124, 94, 255, 20, 232, 140>>,
    value |-> <<2, 25, 124, 94, 255, 20, 232, 140>>],
   [bytes |-> <<157, 127, 62, 125>>, value |-> from_u32(494878333)],
   [bytes |-> <<123, 189>>, value |-> from_u32(15293)],
   [bytes |-> <<37>>, value |-> from_u32(37)]}

\* Every encoding of v, canonical or padded to a longer length.
Encodings(v) == {put_varint_with_len(v, n) : n \in {m \in VarintLens : m >= size(v)}}

Prefixes(b) == {SubSeq(b, 1, k) : k \in 0..Len(b)}

\* Bytes that precede the header in a buffer.
Leads == {<<>>, <<1>>}

\* Leading bytes, a discriminant, a second varint and one more byte, cut
\* anywhere.
WideInputs ==
  UNION {Prefixes(l \o k \o s \o <<0>>) :
           l \in Leads,
           k \in UNION {Encodings(v) : v \in KindValues},
           s \in UNION {Encodings(v) : v \in SessionValues}}

Inputs == ShortInputs \cup WideInputs

(***************************************************************************)
(* The synchronous cursor machine: one parent BufferReader, at most one    *)
(* live child (the child borrows the parent mutably, so the parent is not  *)
(* used while the child lives), and the record of the last operation.      *)
(***************************************************************************)
VARIABLES
  reader,   \* the parent BufferReader
  kid,      \* the live BufferReaderChild: [alive, reader]
  last,     \* the last operation: its name, argument, the readers before it, its result
  src,      \* the byte source of the asynchronous operations
  sink,     \* the byte sink of the asynchronous operations
  fut,      \* the operation on src / sink: its name, whether it is in flight, its state
  ret,      \* what the last poll (or synchronous call) on src / sink returned
  sent,     \* the header written to the sink
  writer    \* the BufferWriter (or Vec<u8>) of the synchronous write operations

svars == <<reader, kid, last>>
avars == <<src, sink, fut, ret, sent>>
vars == <<reader, kid, last, src, sink, fut, ret, sent, debug_assertions, writer>>

NoChild == [alive |-> FALSE, reader |-> BufferReader_new(<<>>)]

Done(op, len, res, panic) ==
  [op |-> op, len |-> len, pre |-> reader, prekid |-> kid, prew |-> writer,
   res |-> res, panic |-> panic]

\* No operation on the source or the sink.
Idle ==
  [op |-> "idle", live |-> FALSE, co |-> ReadAsync_new, task |-> IdleTask,
   start |-> 0, pendings |-> 0, reads |-> 0, arg |-> <<>>]

NoSent == [hdr |-> new_control, via |-> "none", ok |-> FALSE, looped |-> FALSE]

AsyncIdle ==
  /\ src = Source("slice", <<>>, "eof")
  /\ sink = Sink("Vec", 0, "none")
  /\ fut = Idle
  /\ ret = None
  /\ sent = NoSent

Init ==
  /\ writer = BufferWriter_new(<<>>)
  /\ reader \in {BufferReader_new(b) : b \in Inputs}
  /\ kid = NoChild
  /\ last = [op |-> "new", len |-> 0, pre |-> reader, prekid |-> NoChild,
             prew |-> writer, res |-> None, panic |-> FALSE]
  /\ AsyncIdle
  /\ debug_assertions = TRUE

\* buffer_reader.get_varint()
GetVarint ==
  /\ ~kid.alive
  /\ LET g == get_varint(reader)
     IN  /\ reader' = g.reader
         /\ last' = Done("get_varint", 0, g.res, FALSE)
  /\ UNCHANGED <<kid, avars, debug_assertions, writer>>

\* buffer_reader.get_bytes(len)
GetBytes ==
  /\ ~kid.alive
  /\ \E len \in 0..MaxReq :
       LET g == get_bytes(reader, len)
       IN  /\ reader' = g.reader
           /\ last' = Done("get_bytes", len, g.res, FALSE)
  /\ UNCHANGED <<kid, avars, debug_assertions, writer>>

\* buffer_reader.skip(len)
Skip ==
  /\ ~kid.alive
  /\ \E len \in 0..MaxReq :
       LET k == skip(reader, len)
       IN  /\ reader' = k.reader
           /\ last' = Done("skip", len, IF k.ok THEN Ok(<<>>) ELSE Err("EndOfBuffer"), FALSE)
  /\ UNCHANGED <<kid, avars, debug_assertions, writer>>

\* buffer_reader.child()
Child ==
  /\ ~kid.alive
  /\ kid' = [alive |-> TRUE, reader |-> child(reader)]
  /\ last' = Done("child", 0, None, FALSE)
  /\ UNCHANGED <<reader, avars, debug_assertions, writer>>

\* buffer_reader_child.get_varint()
ChildGetVarint ==
  /\ kid.alive
  /\ LET g == get_varint(kid.reader)
     IN  /\ kid' = [kid EXCEPT !.reader = g.reader]
         /\ last' = Done("child.get_varint", 0, g.res, FALSE)
  /\ UNCHANGED <<reader, avars, debug_assertions, writer>>

\* buffer_reader_child.get_bytes(len)
ChildGetBytes ==
  /\ kid.alive
  /\ \E len \in 0..MaxReq :
       LET g == get_bytes(kid.reader, len)
       IN  /\ kid' = [kid EXCEPT !.reader = g.reader]
           /\ last' = Done("child.get_bytes", len, g.res, FALSE)
  /\ UNCHANGED <<reader, avars, debug_assertions, writer>>

\* buffer_reader_child.skip(len)
ChildSkip ==
  /\ kid.alive
  /\ \E len \in 0..MaxReq :
       LET k == skip(kid.reader, len)
       IN  /\ kid' = [kid EXCEPT !.reader = k.reader]
           /\ last' = Done("child.skip", len,
                           IF k.ok THEN Ok(<<>>) ELSE Err("EndOfBuffer"), FALSE)
  /\ UNCHANGED <<reader, avars, debug_assertions, writer>>

\* buffer_reader_child.commit()
Commit ==
  /\ kid.alive
  /\ LET c == commit(reader, kid.reader)
     IN  /\ reader' = c.reader
         /\ last' = Done("commit", 0, None, ~c.ok)
  /\ kid' = NoChild
  /\ UNCHANGED <<avars, debug_assertions, writer>>

\* drop(buffer_reader_child)
Drop ==
  /\ kid.alive
  /\ kid' = NoChild
  /\ last' = Done("drop", 0, None, FALSE)
  /\ UNCHANGED <<reader, avars, debug_assertions, writer>>

\* StreamHeader::read_from_buffer(&mut buffer_reader)
ReadFromBuffer ==
  /\ ~kid.alive
  /\ LET r == read_from_buffer(reader)
     IN  /\ reader' = r.reader
         /\ last' = Done("read_from_buffer", 0, r.res, r.panic)
  /\ UNCHANGED <<kid, avars, debug_assertions, writer>>

\* StreamHeader::read(&mut buffer_reader)
Read ==
  /\ ~kid.alive
  /\ LET r == StreamHeader_read(reader)
     IN  /\ reader' = r.reader
         /\ last' = Done("read", 0, r.res, FALSE)
  /\ UNCHANGED <<kid, avars, debug_assertions, writer>>

Next ==
  \/ GetVarint
  \/ GetBytes
  \/ Skip
  \/ Child
  \/ ChildGetVarint
  \/ ChildGetBytes
  \/ ChildSkip
  \/ Commit
  \/ Drop
  \/ ReadFromBuffer
  \/ Read

Spec == Init /\ [][Next]_vars

(***************************************************************************)
(* The cursor machine over buffers that start with a stream-type           *)
(* discriminant: the four constants, their neighbours, exercise ids and    *)
(* values that are none of these, in every encoding.                       *)
(***************************************************************************)
Discriminants ==
  {from_u32(v) : v \in {0, 1, 2, 3, 32, 33, 34, 64, 66, 84, 95, 16384}}
    \cup {<<1, 0, 0, 0, 0, 0, 0, 0>>, VARINT_MAX}

KindInputs ==
  {l \o k \o <<0>> : l \in Leads, k \in UNION {Encodings(v) : v \in Discriminants}}

InitKinds ==
  /\ writer = BufferWriter_new(<<>>)
  /\ reader \in {BufferReader_new(b) : b \in KindInputs}
  /\ kid = NoChild
  /\ last = [op |-> "new", len |-> 0, pre |-> reader, prekid |-> NoChild,
             prew |-> writer, res |-> None, panic |-> FALSE]
  /\ AsyncIdle
  /\ debug_assertions = TRUE

SpecKinds == InitKinds /\ [][Next]_vars

(***************************************************************************)
(* The asynchronous machine: one source, one sink, and one operation at a  *)
(* time on them.  A run either reads a given source, or writes a header to *)
(* the sink and reads the written bytes back.                              *)
(***************************************************************************)
\* Largest count of Pending answers kept per operation (the count
\* saturates; the source may answer Pending any number of times).
MaxPendings == 1

\* StreamHeader::MAX_SIZE.
StreamHeader_MAX_SIZE == 16

Terms == {"eof", "NotConnected", "ConnectionReset"}

\* Session ids of every encoded length (1, 2, 4 and 8 bytes).
SessionIds ==
  {v \in SessionValues \cup {from_u32(64), from_u32(16384)} :
     try_from_varint(v).tag = "Ok"}

\* The headers the public constructors build.
Headers == {new_control} \cup {new_webtransport(s) : s \in SessionIds}

\* The bytes StreamHeader::write produces for header h.
Encoded(h) == StreamHeader_write(h, Vec_new).writer.buffer

\* The byte streams a source delivers: short ones over the whole alphabet,
\* a discriminant followed by a second varint, and the encodings of the
\* headers, cut anywhere.
StreamInputs ==
  ShortInputs
    \cup UNION {Prefixes(k \o s) :
                 k \in UNION {Encodings(v) : v \in KindValues},
                 s \in UNION {Encodings(v) : v \in SessionValues}}
    \cup UNION {Prefixes(k \o <<1>>) : k \in UNION {Encodings(v) : v \in QPackValues}}
    \cup UNION {Prefixes(Encoded(h)) : h \in Headers}

Sources ==
  {Source("slice", d, "eof") : d \in StreamInputs}
    \cup {Source("stream", d, t) : d \in StreamInputs, t \in Terms}

Sinks ==
  {Sink("Vec", 0, "none")}
    \cup {Sink("stream", room, t) :
            room \in {0, 1, StreamHeader_MAX_SIZE},
            t \in {"NotConnected", "ConnectionReset"}}

SyncIdle ==
  /\ writer = BufferWriter_new(<<>>)
  /\ reader = BufferReader_new(<<>>)
  /\ kid = NoChild
  /\ last = [op |-> "new", len |-> 0, pre |-> reader, prekid |-> NoChild,
             prew |-> writer, res |-> None, panic |-> FALSE]

InitAsync ==
  /\ SyncIdle
  /\ fut = Idle
  /\ ret = None
  /\ sent = NoSent
  /\ \/ src \in Sources /\ sink = Sink("Vec", 0, "none")
     \/ src = Source("slice", <<>>, "eof") /\ sink \in Sinks
  /\ debug_assertions = TRUE

Begin(op) ==
  [op |-> op, live |-> TRUE, co |-> ReadAsync_new, task |-> IdleTask,
   start |-> src.pos, pendings |-> 0, reads |-> 0, arg |-> <<>>]

\* The operation after a poll with outcome o.
Polled(o, co) ==
  [fut EXCEPT !.live = (o.ret.tag \in {"Pending", "Hang"}),
              !.co = co,
              !.task = o.task,
              !.pendings = IF o.ret.tag = "Pending" THEN Min(@ + 1, MaxPendings) ELSE @,
              !.reads = @ + o.reads]

Readable == ~fut.live /\ (sent.via = "none" \/ sent.looped)

\* The source or sink as a task borrows it: its reports are counted anew.
Attach(io) == [io EXCEPT !.zeros = 0, !.errors = 0, !.panics = 0, !.pended = None]

\* reader.get_varint(): GetVarint::new
StartGetVarint ==
  /\ Readable
  /\ fut' = [Begin("get_varint") EXCEPT !.task = GetVarint_new]
  /\ ret' = None
  /\ src' = Attach(src)
  /\ UNCHANGED <<sink, sent, svars, debug_assertions, writer>>

\* One poll of the GetVarint future.
PollGetVarint ==
  /\ fut.live /\ fut.op = "get_varint"
  /\ \E o \in GetVarint_poll(fut.task, src) :
       /\ src' = o.io
       /\ ret' = o.ret
       /\ fut' = Polled(o, fut.co)
  /\ UNCHANGED <<sink, sent, svars, debug_assertions, writer>>

\* StreamHeader::read_async(&mut reader)
StartReadAsync ==
  /\ Readable
  /\ fut' = Begin("read_async")
  /\ ret' = None
  /\ src' = Attach(src)
  /\ UNCHANGED <<sink, sent, svars, debug_assertions, writer>>

\* One poll of the read_async future.
PollReadAsync ==
  /\ fut.live /\ fut.op = "read_async"
  /\ \E o \in ReadAsync_poll(fut.co, fut.task, src) :
       /\ src' = o.io
       /\ ret' = o.ret
       /\ fut' = Polled(o, o.co)
  /\ UNCHANGED <<sink, sent, svars, debug_assertions, writer>>

\* A drop that hands the bytes the task had taken back to the source.
DropTask_rewinding ==
  /\ fut.live /\ ret.tag # "Hang"
  /\ fut' = [fut EXCEPT !.live = FALSE, !.op = "dropped"]
  /\ ret' = None
  /\ src' = IF fut.op \in {"get_varint", "get_buffer"}
              THEN [src EXCEPT !.pos = fut.start] ELSE src
  /\ UNCHANGED <<sink, sent, svars, debug_assertions, writer>>

\* drop of a pending future
DropTask ==
  /\ fut.live /\ ret.tag # "Hang"
  /\ fut' = [fut EXCEPT !.live = FALSE, !.op = "dropped"]
  /\ ret' = None
  /\ UNCHANGED <<src, sink, sent, svars, debug_assertions, writer>>

\* StreamHeader::read(&mut slice) on the in-memory source
ReadSlice ==
  /\ Readable /\ src.impl = "slice"
  /\ LET bytes == SubSeq(src.data, src.pos + 1, Len(src.data))
         r == StreamHeader_read(Slice_new(bytes))
     IN  /\ src' = [src EXCEPT !.pos = src.pos + consumed(r.reader, bytes)]
         /\ ret' = r.res
  /\ fut' = [Begin("read") EXCEPT !.live = FALSE]
  /\ UNCHANGED <<sink, sent, svars, debug_assertions, writer>>

\* StreamHeader::read_from_buffer(&mut BufferReader::new(slice)) on the
\* in-memory source
ReadBuffer ==
  /\ Readable /\ src.impl = "slice"
  /\ LET bytes == SubSeq(src.data, src.pos + 1, Len(src.data))
         r == read_from_buffer(BufferReader_new(bytes))
     IN  /\ src' = [src EXCEPT !.pos = src.pos + r.reader.offset]
         /\ ret' = IF r.panic THEN Panic ELSE r.res
  /\ fut' = [Begin("read_from_buffer") EXCEPT !.live = FALSE]
  /\ UNCHANGED <<sink, sent, svars, debug_assertions, writer>>

Writable == ~fut.live /\ sent.via = "none" /\ Len(src.data) = 0

\* stream_header.write(&mut Vec<u8>)
WriteSync ==
  /\ Writable /\ sink.impl = "Vec"
  /\ \E h \in Headers :
       LET r == StreamHeader_write(h, [Vec_new EXCEPT !.buffer = sink.written])
       IN  /\ sink' = [sink EXCEPT !.written = r.writer.buffer]
           /\ ret' = IF r.panic THEN Panic
                     ELSE IF r.ok THEN Ok(<<>>) ELSE Err("EndOfBuffer")
           /\ sent' = [hdr |-> h, via |-> "write", ok |-> r.ok /\ ~r.panic,
                       looped |-> FALSE]
  /\ fut' = [Begin("write") EXCEPT !.live = FALSE]
  /\ UNCHANGED <<src, svars, debug_assertions, writer>>

\* stream_header.write_async(&mut writer)
StartWriteAsync ==
  /\ Writable
  /\ \E h \in Headers :
       sent' = [hdr |-> h, via |-> "write_async", ok |-> FALSE, looped |-> FALSE]
  /\ fut' = [Begin("write_async") EXCEPT !.co = WriteAsync_new]
  /\ ret' = None
  /\ sink' = Attach(sink)
  /\ UNCHANGED <<src, svars, debug_assertions, writer>>

\* One poll of the write_async future.
PollWriteAsync ==
  /\ fut.live /\ fut.op = "write_async"
  /\ \E o \in WriteAsync_poll(sent.hdr, fut.co, fut.task, sink) :
       /\ sink' = o.io
       /\ ret' = o.ret
       /\ fut' = Polled(o, o.co)
       /\ sent' = [sent EXCEPT !.ok = (o.ret = Ready(Ok(<<>>)))]
  /\ UNCHANGED <<src, svars, debug_assertions, writer>>

\* The written bytes are handed to a reader: as a slice, or over a transport
\* that closes after them.
Loopback ==
  /\ ~fut.live /\ sent.ok /\ ~sent.looped
  /\ \E impl \in {"slice", "stream"} : src' = Source(impl, sink.written, "eof")
  /\ sent' = [sent EXCEPT !.looped = TRUE]
  /\ fut' = Idle
  /\ ret' = None
  /\ UNCHANGED <<sink, svars, debug_assertions, writer>>

NextAsync ==
  \/ StartGetVarint
  \/ PollGetVarint
  \/ StartReadAsync
  \/ PollReadAsync
  \/ DropTask
  \/ ReadSlice
  \/ ReadBuffer
  \/ WriteSync
  \/ StartWriteAsync
  \/ PollWriteAsync
  \/ Loopback

SpecAsync == InitAsync /\ [][NextAsync]_vars

(***************************************************************************)
(* The byte-level asynchronous machine: get_varint, get_buffer, put_varint *)
(* and put_buffer tasks on a source and a sink, in both builds, with sinks *)
(* that keep or break the contract of poll_write.                          *)
(***************************************************************************)
\* Largest destination of get_buffer and largest buffer of put_buffer.
MaxBuf == 3
\* A put starts only while the sink holds at most this many bytes.
MaxBacklog == 1

Pattern == <<1, 2, 33, 64, 84, 128>>

IoInputs == ShortInputs \cup Prefixes(SubSeq(Pattern, 1, MaxBuf + 1))

IoSources ==
  {Source("slice", d, "eof") : d \in IoInputs}
    \cup {Source("stream", d, t) : d \in IoInputs, t \in Terms}

IoSinks ==
  {Sink("Vec", 0, "none")}
    \cup {[Sink("stream", room, t) EXCEPT !.faulty = f] :
            room \in {0, 1, MaxBuf, StreamHeader_MAX_SIZE},
            t \in {"NotConnected", "ConnectionReset"},
            f \in BOOLEAN}

\* The varints put_varint is called with: of every encoded size.
PutValues ==
  KindValues \cup SessionValues \cup {from_u32(16384)}
    \cup {c.value : c \in VARINT_TEST_CASES}

\* The buffers put_buffer is called with.
PutBuffers == {SubSeq(Pattern, 1, n) : n \in 0..MaxBuf}

InitIo ==
  /\ SyncIdle
  /\ fut = Idle
  /\ ret = None
  /\ sent = NoSent
  /\ \/ src \in IoSources /\ sink = Sink("Vec", 0, "none")
     \/ src = Source("slice", <<>>, "eof") /\ sink \in IoSinks
  /\ debug_assertions \in BOOLEAN

Puttable == Writable /\ Len(sink.written) <= MaxBacklog

\* reader.get_buffer(&mut [0; n]): GetBuffer::new
StartGetBuffer ==
  /\ Readable
  /\ \E n \in 0..MaxBuf :
       fut' = [Begin("get_buffer") EXCEPT !.task = GetBuffer_new(n), !.arg = n]
  /\ ret' = None
  /\ src' = Attach(src)
  /\ UNCHANGED <<sink, sent, svars, debug_assertions, writer>>

\* One poll of the GetBuffer future.
PollGetBuffer ==
  /\ fut.live /\ fut.op = "get_buffer"
  /\ \E o \in GetBuffer_poll(fut.task, src, 0) :
       /\ src' = o.io
       /\ ret' = o.ret
       /\ fut' = Polled(o, fut.co)
  /\ UNCHANGED <<sink, sent, svars, debug_assertions, writer>>

\* writer.put_varint(varint): PutVarint::new
StartPutVarint ==
  /\ Puttable
  /\ \E varint \in PutValues :
       fut' = [Begin("put_varint") EXCEPT !.task = PutVarint_new(varint),
                                          !.arg = varint,
                                          !.start = Len(sink.written)]
  /\ ret' = None
  /\ sink' = Attach(sink)
  /\ UNCHANGED <<src, sent, svars, debug_assertions, writer>>

\* One poll of the PutVarint future.
PollPutVarint ==
  /\ fut.live /\ fut.op = "put_varint" /\ ret.tag # "Hang"
  /\ \E o \in PutVarint_poll(fut.task, sink, 0) :
       /\ sink' = o.io
       /\ ret' = o.ret
       /\ fut' = Polled(o, fut.co)
  /\ UNCHANGED <<src, sent, svars, debug_assertions, writer>>

\* writer.put_buffer(buffer): PutBuffer::new
StartPutBuffer ==
  /\ Puttable
  /\ \E buffer \in PutBuffers :
       fut' = [Begin("put_buffer") EXCEPT !.task = PutBuffer_new(buffer),
                                          !.arg = buffer,
                                          !.start = Len(sink.written)]
  /\ ret' = None
  /\ sink' = Attach(sink)
  /\ UNCHANGED <<src, sent, svars, debug_assertions, writer>>

\* One poll of the PutBuffer future.
PollPutBuffer ==
  /\ fut.live /\ fut.op = "put_buffer" /\ ret.tag # "Hang"
  /\ \E o \in PutBuffer_poll(fut.task, sink, 0) :
       /\ sink' = o.io
       /\ ret' = o.ret
       /\ fut' = Polled(o, fut.co)
  /\ UNCHANGED <<src, sent, svars, debug_assertions, writer>>

NextIo ==
  \/ StartGetVarint
  \/ PollGetVarint
  \/ StartGetBuffer
  \/ PollGetBuffer
  \/ StartPutVarint
  \/ PollPutVarint
  \/ StartPutBuffer
  \/ PollPutBuffer
  \/ DropTask

SpecIo == InitIo /\ [][NextIo]_vars

(***************************************************************************)
(* The tasks under a fair scheduler and transport: a pending task is       *)
(* resumed again, and the source or sink does not answer Pending for ever. *)
(***************************************************************************)
FairIoInputs == {<<>>, <<1>>, <<64, 84>>, <<128, 33>>, <<1, 2, 33, 64>>}

InitFairIo ==
  /\ InitIo
  /\ src.data \in FairIoInputs
  /\ src.term \in {"eof", "NotConnected"}
  /\ sink.room \in {0, MaxBuf}
  /\ sink.term \in {"none", "ConnectionReset"}

\* A poll in which the task transfers at least one byte or ends.
TaskProgress ==
  /\ PollGetVarint \/ PollGetBuffer \/ PollPutVarint \/ PollPutBuffer
  /\ ret'.tag # "Pending" \/ fut'.task.offset > fut.task.offset

FairSpecIo ==
  /\ InitFairIo
  /\ [][NextIo]_vars
  /\ WF_vars(TaskProgress)

(***************************************************************************)
(* The cursor machine with a write side: the read cursor with its child,   *)
(* and a BytesWriter (a BufferWriter over a fixed buffer, or a Vec<u8>)    *)
(* that takes varints, bytes and headers.                                  *)
(***************************************************************************)
\* Largest buffer under a BufferWriter.
MaxCap == 10
\* A write starts only while the writer holds at most this many bytes.
MaxWritten == 2
\* BufferWriter::offset, and the length of a Vec<u8>.
written(w) == IF w.impl = "Vec" THEN Len(w.buffer) ELSE w.offset

\* The writers at the start: buffers and vectors holding the byte 0xaa.
Writers ==
  {BufferWriter_new([i \in 1..n |-> 170]) : n \in 0..MaxCap}
    \cup {[Vec_new EXCEPT !.buffer = b] : b \in {<<>>, <<170>>}}

CursorInputs ==
  ShortInputs
    \cup UNION {Prefixes(e \o <<1>>) :
                  e \in UNION {Encodings(v) : v \in {from_u32(1), from_u32(16384)}}}

InitCursor ==
  /\ \/ writer \in Writers /\ reader = BufferReader_new(<<>>)
     \/ writer = BufferWriter_new(<<>>)
        /\ reader \in {BufferReader_new(b) : b \in CursorInputs}
  /\ kid = NoChild
  /\ last = [op |-> "new", len |-> 0, pre |-> reader, prekid |-> NoChild,
             prew |-> writer, res |-> None, panic |-> FALSE]
  /\ AsyncIdle
  /\ debug_assertions = TRUE

\* The Result<(), EndOfBuffer> of a write.
Unit(w) == IF w.ok THEN Ok(<<>>) ELSE Err("EndOfBuffer")

\* bytes_writer.put_varint(varint)
PutVarint ==
  /\ written(writer) <= MaxWritten
  /\ \E varint \in PutValues :
       LET w == put_varint(writer, varint)
       IN  /\ writer' = w.writer
           /\ last' = Done("put_varint", varint, Unit(w), w.panic)
  /\ UNCHANGED <<reader, kid, avars, debug_assertions>>

\* bytes_writer.put_bytes(bytes)
PutBytes ==
  /\ written(writer) <= MaxWritten
  /\ \E bytes \in PutBuffers :
       LET w == put_bytes(writer, bytes)
       IN  /\ writer' = w.writer
           /\ last' = Done("put_bytes", bytes, Unit(w), w.panic)
  /\ UNCHANGED <<reader, kid, avars, debug_assertions>>

\* header.write(&mut bytes_writer)
Write ==
  /\ written(writer) <= MaxWritten
  /\ \E h \in Headers :
       LET w == StreamHeader_write(h, writer)
       IN  /\ writer' = w.writer
           /\ last' = Done("write", h, Unit(w), w.panic)
  /\ UNCHANGED <<reader, kid, avars, debug_assertions>>

\* header.write_to_buffer(&mut buffer_writer)
WriteToBuffer ==
  /\ writer.impl = "BufferWriter"
  /\ written(writer) <= MaxWritten
  /\ \E h \in Headers :
       LET w == write_to_buffer(h, writer)
       IN  /\ writer' = w.writer
           /\ last' = Done("write_to_buffer", h, Unit(w), w.panic)
  /\ UNCHANGED <<reader, kid, avars, debug_assertions>>

NextCursor ==
  \/ GetVarint
  \/ GetBytes
  \/ Skip
  \/ Child
  \/ ChildGetVarint
  \/ ChildGetBytes
  \/ ChildSkip
  \/ Commit
  \/ Drop
  \/ PutVarint
  \/ PutBytes
  \/ Write
  \/ WriteToBuffer

SpecCursor == InitCursor /\ [][NextCursor]_vars

(***************************************************************************)
(* The sample cases of the tests: the canonical varint samples and the     *)
(* empty buffer, read and written through the synchronous cursors or       *)
(* through the asynchronous tasks.                                         *)
(***************************************************************************)
\* The bytes a case starts from: a canonical sample, or nothing.
CaseBytes == {c.bytes : c \in VARINT_TEST_CASES} \cup {<<>>}

\* The buffer under the BufferWriter of a case: [0; VarInt::MAX_SIZE] for a
\* sample, &mut [] for the empty case.
CaseBuffer(bytes) == IF bytes = <<>> THEN <<>> ELSE Zeros(MAX_SIZE)

\* The sinks of a case: a Vec<u8>, or a transport that takes MAX_SIZE bytes
\* (none in the empty case) and then reports ConnectionReset.
CaseSinks(bytes) ==
  {Sink("Vec", 0, "none"), Sink("stream", Len(CaseBuffer(bytes)), "ConnectionReset")}

InitCases ==
  /\ \E bytes \in CaseBytes :
       /\ writer = BufferWriter_new(CaseBuffer(bytes))
       /\ reader = BufferReader_new(bytes)
       /\ \/ /\ src \in {Source("slice", bytes, "eof"), Source("stream", bytes, "eof")}
             /\ sink = Sink("Vec", 0, "none")
          \/ /\ src = Source("slice", <<>>, "eof")
             /\ sink \in CaseSinks(bytes)
  /\ kid = NoChild
  /\ last = [op |-> "new", len |-> 0, pre |-> reader, prekid |-> NoChild,
             prew |-> writer, res |-> None, panic |-> FALSE]
  /\ fut = Idle
  /\ ret = None
  /\ sent = NoSent
  /\ debug_assertions = TRUE

\* A case is run through the cursors or through the tasks.  The two share no
\* state, so a run that used both would be an interleaving of one run of
\* each.
OnCursors == fut.op = "idle"
OnTasks == last.op = "new"

NextCases ==
  \/ OnCursors /\ GetVarint
  \/ OnCursors /\ GetBytes
  \/ OnCursors /\ PutVarint
  \/ OnCursors /\ PutBytes
  \/ OnTasks /\ StartGetVarint
  \/ OnTasks /\ PollGetVarint
  \/ OnTasks /\ StartGetBuffer
  \/ OnTasks /\ PollGetBuffer
  \/ OnTasks /\ StartPutVarint
  \/ OnTasks /\ PollPutVarint
  \/ OnTasks /\ StartPutBuffer
  \/ OnTasks /\ PollPutBuffer

SpecCases == InitCases /\ [][NextCases]_vars

(***************************************************************************)
(* Properties of the synchronous cursors.                                  *)
(***************************************************************************)
IsSomeOk(res) == res.tag = "Some" /\ res.val.tag = "Ok"
IsSomeErr(res) == res.tag = "Some" /\ res.val.tag = "Err"

\* The number of bytes of the header that starts at the remaining bytes of r:
\* the discriminant varint and, for WebTransport, the session-id varint.
HeaderBytes(r, header) ==
  LET b == buffer_remaining(r)
      n1 == parse_size(b[1])
  IN  IF header.kind.tag = "WebTransport" THEN n1 + parse_size(b[n1 + 1]) ELSE n1

\* C1: StreamHeader::read_from_buffer is all-or-nothing on the parent
\* BufferReader.  When it returns None or Some(Err(..)) the parent's offset
\* and capacity are what they were before the call and a repeated call gives
\* the same outcome; when it returns Some(Ok(header)) the parent has advanced
\* by exactly the bytes of the header.  It never panics in commit.
C1_ReadFromBufferAtomic ==
  last.op = "read_from_buffer" =>
    /\ ~last.panic
    /\ reader.buffer = last.pre.buffer
    /\ (last.res.tag = "None" \/ IsSomeErr(last.res)) =>
         /\ reader.offset = last.pre.offset
         /\ capacity(reader) = capacity(last.pre)
         /\ read_from_buffer(reader).res = last.res
    /\ IsSomeErr(last.res) => last.res.val.val \in {"UnknownStream", "InvalidSessionId"}
    /\ IsSomeOk(last.res) =>
         reader.offset = last.pre.offset + HeaderBytes(last.pre, last.res.val.val)

\* C1 witness: a read_from_buffer in the middle of a buffer that failed with
\* InvalidSessionId after two complete varints.
C1_Witness ==
  /\ last.op = "read_from_buffer"
  /\ last.pre.offset > 0
  /\ last.res = Some(Err("InvalidSessionId"))

\* The reader an operation of the last step acted on, before and after it.
LastOn(parentOp, childOp) == last.op \in {parentOp, childOp}
Before == IF last.prekid.alive THEN last.prekid.reader ELSE last.pre
After == IF last.prekid.alive THEN kid.reader ELSE reader

\* C2: get_varint on a read cursor fails when capacity() == 0; otherwise,
\* with size = parse_size(first remaining byte), it fails with the offset
\* unchanged when capacity() < size, and else returns the value those size
\* bytes encode and advances the offset by exactly size.
C2_GetVarint ==
  LastOn("get_varint", "child.get_varint") =>
    /\ After.buffer = Before.buffer
    /\ IF capacity(Before) = 0
         THEN last.res.tag = "None" /\ After.offset = Before.offset
         ELSE LET sz == parse_size(Before.buffer[Before.offset + 1])
              IN  IF capacity(Before) < sz
                    THEN last.res.tag = "None" /\ After.offset = Before.offset
                    ELSE /\ last.res.tag = "Some"
                         /\ U64Le(last.res.val, VARINT_MAX)
                         /\ put_varint_with_len(last.res.val, sz)
                              = SubSeq(Before.buffer, Before.offset + 1, Before.offset + sz)
                         /\ After.offset = Before.offset + sz

\* C2 witness: a get_varint that failed on a non-empty remainder (a
\* truncated multi-byte varint) in the middle of the buffer.
C2_Witness ==
  /\ last.op = "get_varint"
  /\ last.pre.offset > 0
  /\ capacity(last.pre) > 1
  /\ last.res.tag = "None"

\* C3: get_bytes(len) on a read cursor fails with the offset unchanged when
\* capacity() < len, and else returns exactly buffer[offset .. offset+len]
\* and advances the offset by exactly len.
C3_GetBytes ==
  LastOn("get_bytes", "child.get_bytes") =>
    /\ After.buffer = Before.buffer
    /\ IF capacity(Before) < last.len
         THEN last.res.tag = "None" /\ After.offset = Before.offset
         ELSE /\ last.res.tag = "Some"
              /\ Len(last.res.val) = last.len
              /\ \A i \in 1..last.len : last.res.val[i] = Before.buffer[Before.offset + i]
              /\ After.offset = Before.offset + last.len

\* C3 witness: a get_bytes that took exactly the last bytes of the buffer.
C3_Witness ==
  /\ last.op = "get_bytes"
  /\ last.len > 0
  /\ last.pre.offset > 0
  /\ capacity(last.pre) = last.len
  /\ last.res.tag = "Some"

\* C4: for a child created at parent offset p whose own offset is c,
\* commit() never panics and sets the parent's offset to exactly p + c,
\* which is at most the length of the parent's buffer.
C4_Commit ==
  last.op = "commit" =>
    /\ ~last.panic
    /\ reader.offset = last.pre.offset + last.prekid.reader.offset
    /\ reader.offset <= Len(reader.buffer)
    /\ reader.buffer = last.pre.buffer
    /\ ~kid.alive

\* C4 witness: a commit of a child that had read, on a parent that had read.
C4_Witness ==
  /\ last.op = "commit"
  /\ last.pre.offset > 0
  /\ last.prekid.reader.offset > 0

\* C5: child() yields a cursor at offset 0 whose capacity is the parent's
\* remaining capacity; no read or skip on the child, successful or failed,
\* changes the parent; and when the child is dropped without commit the
\* parent is what it was when child() was called (its remaining bytes are
\* still the bytes the child was created over).
C5_ChildIsolation ==
  /\ last.op = "child" =>
       /\ kid.alive
       /\ kid.reader.offset = 0
       /\ capacity(kid.reader) = capacity(reader)
       /\ reader = last.pre
  /\ last.op \in {"child.get_varint", "child.get_bytes", "child.skip"} =>
       reader = last.pre
  /\ kid.alive => kid.reader.buffer = buffer_remaining(reader)
  /\ last.op = "drop" =>
       /\ reader = last.pre
       /\ last.prekid.reader.buffer = buffer_remaining(reader)

\* C5 witness: a child that had read was dropped, on a parent that had read.
C5_Witness ==
  /\ last.op = "drop"
  /\ reader.offset > 0
  /\ last.prekid.reader.offset > 0

(***************************************************************************)
(* The asynchronous machine under a fair transport: a pending get-varint   *)
(* future is resumed again, and the source does not answer Pending         *)
(* forever.                                                                *)
(***************************************************************************)
FairInputs ==
  UNION {Prefixes(k \o <<0>>) : k \in UNION {Encodings(v) : v \in KindValues}}

InitFair ==
  /\ InitAsync
  /\ src.data \in FairInputs \cup {<<>>}

\* A poll in which the source transfers at least one byte or the task ends.
GetVarintProgress == PollGetVarint /\ (src'.pos # src.pos \/ ret'.tag # "Pending")

FairSpecAsync ==
  /\ InitFair
  /\ [][NextAsync]_vars
  /\ WF_vars(GetVarintProgress)

(***************************************************************************)
(* Properties of the asynchronous adapter and of the stream header.        *)
(***************************************************************************)
\* The bytes of the source from where the operation started.
BytesAtStart == SubSeq(src.data, fut.start + 1, Len(src.data))

\* What the synchronous decoder returns for the bytes at the start.
SyncVarint == BufferReader_get_varint(BufferReader_new(BytesAtStart))

Completed(op) == fut.op = op /\ ~fut.live

\* C6: asynchronous get-varint under arbitrarily fine-grained delivery.  On
\* a byte stream that starts with a complete varint, under every schedule of
\* Pending answers and partial transfers, the task yields no other result
\* than Ok(v), v being what the synchronous decoder returns for the same
\* bytes, having taken exactly the varint's bytes; and a task that is kept
\* being resumed eventually yields it (unless its owner drops it).
C6_AsyncVarint ==
  /\ [](Completed("get_varint") /\ SyncVarint.res.tag = "Some" =>
          /\ ret = Ready(Ok(SyncVarint.res.val))
          /\ src.pos = fut.start + SyncVarint.reader.offset)
  /\ (fut.op = "get_varint" /\ fut.live /\ SyncVarint.res.tag = "Some")
       ~> (\/ Completed("get_varint") /\ ret = Ready(Ok(SyncVarint.res.val))
           \/ fut.op = "dropped")

\* C6 witness: an 8-byte varint delivered in eight transfers, with
\* suspensions, and decoded.
C6_Witness ==
  /\ Completed("get_varint")
  /\ ret.tag = "Ready" /\ ret.val.tag = "Ok"
  /\ fut.task.varint_size = 8
  /\ fut.reads = 8
  /\ fut.pendings >= 1

\* The header results of the synchronous entry points on the bytes at the
\* start: read on a slice, read on a BufferReader, read_from_buffer.
SyncReadSlice == StreamHeader_read(Slice_new(BytesAtStart))
SyncReadReader == StreamHeader_read(BufferReader_new(BytesAtStart))
SyncReadBuffer == read_from_buffer(BufferReader_new(BytesAtStart))

\* The asynchronous result that corresponds to a synchronous one, for a
\* source that closes after its bytes.
AsAsync(res) ==
  IF res.tag = "None" THEN Ready(Err(IO("Closed")))
  ELSE IF res.val.tag = "Ok" THEN Ready(Ok(res.val.val))
  ELSE Ready(Err(StreamHeaderErr(res.val.val)))

\* C7: the three header-reading entry points accept and reject the same
\* byte sequences.  On the same bytes read, read_from_buffer and read_async
\* (over a source that delivers the bytes and then closes, its poll_read not
\* panicking) return the same header or the same content error, and
\* read_async reports IO(Closed) exactly where the synchronous ones report
\* None.
C7_EntryPointsAgree ==
  /\ Completed("read_async") /\ src.term = "eof" /\ src.panics = 0 =>
       /\ SyncReadSlice.res = SyncReadReader.res
       /\ SyncReadSlice.res = SyncReadBuffer.res
       /\ ret = AsAsync(SyncReadSlice.res)
       /\ (ret = Ready(Err(IO("Closed")))) <=> (SyncReadSlice.res.tag = "None")
  /\ Completed("read") => ret = SyncReadReader.res /\ ret = SyncReadBuffer.res
  /\ Completed("read_from_buffer") => ret = SyncReadSlice.res

\* C7 witness: read_async over a transport ended in IO(Closed) inside the
\* session id of a WebTransport header.
C7_Witness ==
  /\ Completed("read_async")
  /\ src.impl = "stream" /\ src.term = "eof"
  /\ fut.co.kind.tag = "Some"
  /\ fut.reads >= 2
  /\ ret = Ready(Err(IO("Closed")))

\* The header a completed read returned, if it returned one.
ReadOk ==
  \/ fut.op \in {"read", "read_from_buffer"} /\ IsSomeOk(ret)
  \/ Completed("read_async") /\ ret.tag = "Ready" /\ ret.val.tag = "Ok"
ReadHeader == ret.val.val

\* A header was written completely and handed to a reader, and the first
\* read of it is complete.
RoundTrip ==
  /\ sent.ok /\ sent.looped
  /\ fut.start = 0
  /\ \/ fut.op \in {"read", "read_from_buffer"}
     \/ Completed("read_async")

\* C8: header round trip.  For every header built by new_control or
\* new_webtransport, write (into a Vec, or write_async into a sink) produces
\* write_size() bytes, and read (or read_async) on these bytes yields a
\* header of the same kind and session id and consumes exactly write_size()
\* bytes, leaving the reader empty.
C8_RoundTrip ==
  /\ sent.ok =>
       /\ Len(sink.written) = write_size(sent.hdr)
       /\ Len(sink.written) <= StreamHeader_MAX_SIZE
  /\ RoundTrip =>
       /\ ReadOk
       /\ ReadHeader.kind = sent.hdr.kind
       /\ session_id(ReadHeader) = session_id(sent.hdr)
       /\ src.pos = write_size(sent.hdr)
       /\ available(src) = 0

\* C8 witness: a WebTransport header with an 8-byte session id, written by
\* write_async to a transport and read back by read_async from a transport.
C8_Witness ==
  /\ RoundTrip
  /\ sent.via = "write_async" /\ sink.impl = "stream"
  /\ fut.op = "read_async" /\ src.impl = "stream"
  /\ write_size(sent.hdr) = 10

\* The headers of a state: the one built by a constructor and written, and
\* the one a read returned.
HeadersOfState ==
  (IF sent.via # "none" THEN {sent.hdr} ELSE {})
    \cup (IF ReadOk THEN {ReadHeader} ELSE {})

\* C9: every header obtained from new_control, new_webtransport, read,
\* read_from_buffer or read_async carries a session id if and only if its
\* kind is WebTransport; so the session_id() accessor does not panic and
\* returns Some exactly for WebTransport headers.
C9_SessionIdIffWebTransport ==
  \A h \in HeadersOfState :
    /\ (h.session_id.tag = "Some") <=> (h.kind.tag = "WebTransport")
    /\ session_id(h).tag # "Panic"
    /\ (session_id(h).tag = "Some") <=> (h.kind.tag = "WebTransport")
    /\ new_debug_assert(h.kind, h.session_id)

\* C9 witness: read_async returned a WebTransport header.
C9_Witness ==
  /\ Completed("read_async")
  /\ ReadOk
  /\ ReadHeader.kind.tag = "WebTransport"
  /\ sent.via = "none"

\* A read of a header that is complete, on bytes that start with a complete
\* discriminant whose value v satisfies v >= 0x21 and (v - 0x21) mod 0x1f = 0.
ExerciseRead ==
  /\ \/ fut.op \in {"read", "read_from_buffer"}
     \/ Completed("read_async")
  /\ SyncVarint.res.tag = "Some"
  /\ U64Le(from_u32(33), SyncVarint.res.val)
  /\ U64Mod(U64Sub(SyncVarint.res.val, from_u32(33)), 31) = 0

\* C10 as stated: a header that starts with an exercise discriminant is
\* rejected with UnknownStream by read, read_from_buffer and read_async.
C10_ExerciseRejected ==
  ExerciseRead =>
    IF fut.op = "read_async" THEN ret = Ready(Err(StreamHeaderErr("UnknownStream")))
    ELSE ret = Some(Err("UnknownStream"))

\* C10 amended: a header that starts with an exercise discriminant v is
\* accepted by read, read_from_buffer and read_async: each returns a header
\* of kind Exercise(v) without session id, and consumes exactly the
\* discriminant.
C10_ExerciseAccepted ==
  ExerciseRead =>
    /\ ReadOk
    /\ ReadHeader = [kind |-> Exercise(SyncVarint.res.val), session_id |-> None]
    /\ src.pos = fut.start + SyncVarint.reader.offset

\* C10 witness: read_async returned an Exercise header for the 8-byte
\* discriminant 2^56.
C10_Witness ==
  /\ ExerciseRead
  /\ fut.op = "read_async"
  /\ SyncVarint.reader.offset = 8

\* A completed header read (read, read_from_buffer or read_async).
ReadDone ==
  \/ fut.op \in {"read", "read_from_buffer"}
  \/ Completed("read_async")

\* The content error e as the entry point of the completed read reports it.
ReadFailedWith(e) ==
  IF fut.op = "read_async" THEN ret = Ready(Err(StreamHeaderErr(e)))
  ELSE ret = Some(Err(e))

\* The bytes at the start begin with a complete discriminant that is none of
\* 0x00, 0x02, 0x03, 0x54 and does not satisfy the exercise rule.
UnknownDiscriminant ==
  /\ SyncVarint.res.tag = "Some"
  /\ SyncVarint.res.val \notin {from_u32(0), from_u32(2), from_u32(3), from_u32(84)}
  /\ \/ U64Less(SyncVarint.res.val, from_u32(33))
     \/ U64Mod(U64Sub(SyncVarint.res.val, from_u32(33)), 31) # 0

\* C11: every header-read entry point returns UnknownStream for a fully
\* readable discriminant that is no known constant and no exercise id,
\* whatever bytes follow it; the bytes after the discriminant are not taken
\* (and read_from_buffer takes none at all).
C11_UnknownStream ==
  ReadDone /\ UnknownDiscriminant =>
    /\ ReadFailedWith("UnknownStream")
    /\ src.pos = IF fut.op = "read_from_buffer" THEN fut.start
                 ELSE fut.start + SyncVarint.reader.offset

\* C11 witness: read_async rejected the discriminant 0x42 with bytes
\* following it.
C11_Witness ==
  /\ Completed("read_async")
  /\ UnknownDiscriminant
  /\ SyncVarint.res.val = from_u32(66)
  /\ available(src) > 0
  /\ ReadFailedWith("UnknownStream")

\* The varint that follows the discriminant in the bytes at the start.
SecondVarint == BufferReader_get_varint(SyncVarint.reader)

\* The kind with the fixed discriminant v, for v one of 0x00, 0x02, 0x03.
PlainKind(v) ==
  IF v = from_u32(0) THEN Control
  ELSE IF v = from_u32(2) THEN QPackEncoder
  ELSE QPackDecoder

\* C12: a second varint is read if and only if the kind is WebTransport.
\* For the discriminants of Control, QPackEncoder and QPackDecoder the read
\* takes exactly the discriminant and yields a header without session id;
\* for WebTransport followed by a complete varint it takes that varint too,
\* and yields InvalidSessionId exactly when the SessionId conversion fails,
\* otherwise a header with that session id.
C12_SecondVarintIffWebTransport ==
  ReadDone /\ SyncVarint.res.tag = "Some" =>
    /\ SyncVarint.res.val \in {from_u32(0), from_u32(2), from_u32(3)} =>
         /\ ReadOk
         /\ ReadHeader = [kind |-> PlainKind(SyncVarint.res.val), session_id |-> None]
         /\ src.pos = fut.start + SyncVarint.reader.offset
    /\ SyncVarint.res.val = from_u32(84) /\ SecondVarint.res.tag = "Some" =>
         IF SecondVarint.res.val[8] % 4 # 0
           THEN /\ ReadFailedWith("InvalidSessionId")
                /\ src.pos = IF fut.op = "read_from_buffer" THEN fut.start
                             ELSE fut.start + SecondVarint.reader.offset
           ELSE /\ ReadOk
                /\ ReadHeader = [kind |-> WebTransport,
                                 session_id |-> Some(SecondVarint.res.val)]
                /\ src.pos = fut.start + SecondVarint.reader.offset

\* C12 witness: read_async took the second varint of a WebTransport header
\* and rejected it as session id.
C12_Witness ==
  /\ Completed("read_async")
  /\ SyncVarint.res.tag = "Some" /\ SyncVarint.res.val = from_u32(84)
  /\ SecondVarint.res.tag = "Some" /\ SecondVarint.res.val[8] % 4 # 0
  /\ SecondVarint.reader.offset - SyncVarint.reader.offset = 8
  /\ ReadFailedWith("InvalidSessionId")

\* C13 as stated: a StreamHeader::read on a BufferReader that returns None
\* leaves the remaining capacity of the reader as it was before the call.
C13_RawReadNoneUnchanged ==
  last.op = "read" /\ last.res.tag = "None" =>
    capacity(reader) = capacity(last.pre)

\* C13 amended: a StreamHeader::read on a BufferReader that returns None
\* leaves the reader unchanged when the discriminant is incomplete; when the
\* discriminant is complete (it is then WebTransport's and the session id is
\* incomplete) the reader stays advanced by exactly the discriminant's bytes.
C13_RawReadNonePartial ==
  last.op = "read" /\ last.res.tag = "None" =>
    LET g == BufferReader_get_varint(last.pre)
    IN  /\ reader.buffer = last.pre.buffer
        /\ IF g.res.tag = "None"
             THEN /\ reader.offset = last.pre.offset
                  /\ capacity(reader) = capacity(last.pre)
             ELSE /\ g.res.val = from_u32(84)
                  /\ reader.offset = g.reader.offset
                  /\ capacity(reader)
                       = capacity(last.pre) - (g.reader.offset - last.pre.offset)
                  /\ capacity(reader) < capacity(last.pre)
                  /\ BufferReader_get_varint(reader).res.tag = "None"

\* C13 witness: a read in the middle of a buffer returned None after taking
\* a 2-byte WebTransport discriminant.
C13_Witness ==
  /\ last.op = "read" /\ last.res.tag = "None"
  /\ last.pre.offset > 0
  /\ reader.offset = last.pre.offset + 2

\* The source holds, from where the read started, only a strict prefix
\* (possibly empty) of the encoding of a header that new_control or
\* new_webtransport builds.
TruncatedHeader ==
  \E h \in Headers :
    /\ Len(BytesAtStart) < Len(Encoded(h))
    /\ BytesAtStart = SubSeq(Encoded(h), 1, Len(BytesAtStart))

\* C14: on every strict prefix of the encoding of a valid header,
\* StreamHeader::read and read_from_buffer return None: neither a content
\* error nor a header.
C14_IncompleteIsNone ==
  fut.op \in {"read", "read_from_buffer"} /\ fut.start = 0 /\ TruncatedHeader =>
    ret = None

\* C14 witness: read_from_buffer returned None on a WebTransport header cut
\* inside its 4-byte session id.
C14_Witness ==
  /\ fut.op = "read_from_buffer" /\ fut.start = 0
  /\ TruncatedHeader
  /\ Len(src.data) = 4
  /\ SecondVarint.res.tag = "None"
  /\ parse_size(src.data[3]) = 4
  /\ ret = None

\* C15: read_async over a &[u8] source that holds only a strict prefix of
\* the encoding of a valid header completes with Err(IO(Closed)).
C15_TruncatedSliceClosed ==
  Completed("read_async") /\ src.impl = "slice" /\ fut.start = 0 /\ TruncatedHeader =>
    ret = Ready(Err(IO("Closed")))

\* C15 witness: read_async over a &[u8] source cut inside a 4-byte session
\* id ended in the panic of the source's poll_read.
C15_Witness ==
  /\ Completed("read_async") /\ src.impl = "slice" /\ fut.start = 0
  /\ TruncatedHeader
  /\ src.data = <<64, 84, 128, 0>>
  /\ src.panics = 1
  /\ ret = Panic

\* C16: in asynchronous get-varint a zero-byte transfer from the source, on
\* the first-byte request or on a request for the remaining bytes, completes
\* the task with the Closed error on that poll: it yields no value, does not
\* suspend, and does not ask the source again.
C16_ZeroTransferIsClosed ==
  fut.op = "get_varint" /\ src.zeros > 0 =>
    /\ ~fut.live
    /\ ret = Ready(Err("Closed"))
    /\ src.zeros = 1
    /\ fut.task.offset < fut.task.varint_size \/ fut.task.offset = 0

\* C16 witness: a transport closed after three of the four bytes of a
\* varint, which had arrived in three transfers.
C16_Witness ==
  /\ Completed("get_varint")
  /\ src.impl = "stream" /\ src.zeros = 1
  /\ fut.task.varint_size = 4 /\ fut.task.offset = 3
  /\ fut.reads = 3
  /\ ret = Ready(Err("Closed"))

(***************************************************************************)
(* Properties of the byte-level asynchronous tasks.                        *)
(***************************************************************************)
\* The bytes the source has delivered to the running task, in order.
Delivered == SubSeq(src.data, fut.start + 1, src.pos)

\* The source has not been asked: no transfer, no suspension, no zero-byte
\* answer, no error, no panic since the task was created.
SourceUntouched ==
  /\ src.pos = fut.start
  /\ fut.reads = 0 /\ fut.pendings = 0
  /\ src.zeros = 0 /\ src.errors = 0 /\ src.panics = 0

\* C17: get_buffer with a destination of n bytes keeps the delivered bytes
\* in order at dest[0..offset] under every split into partial transfers and
\* suspensions; it completes with Ok only when exactly n bytes have been
\* transferred, dest then holding the first n delivered bytes; a zero-byte
\* transfer while offset < n completes it with Closed; for n = 0 the first
\* poll completes with Ok and the source is not asked.
C17_GetBuffer ==
  fut.op = "get_buffer" =>
    /\ Len(fut.task.buffer) = fut.arg
    /\ SubSeq(fut.task.buffer, 1, fut.task.offset) = Delivered
    /\ ret = Ready(Ok(<<>>)) =>
         /\ ~fut.live
         /\ src.pos = fut.start + fut.arg
         /\ fut.task.offset = fut.arg
         /\ fut.task.buffer = SubSeq(src.data, fut.start + 1, fut.start + fut.arg)
    /\ src.zeros > 0 =>
         /\ ~fut.live
         /\ ret = Ready(Err("Closed"))
         /\ fut.task.offset < fut.arg
         /\ src.zeros = 1
    /\ fut.arg = 0 /\ ret # None =>
         /\ ret = Ready(Ok(<<>>))
         /\ SourceUntouched

\* A 3-byte destination filled by three partial transfers with a suspension.
C17_Witness ==
  /\ fut.op = "get_buffer" /\ fut.arg = 3
  /\ src.impl = "stream"
  /\ ret = Ready(Ok(<<>>))
  /\ fut.reads = 3 /\ fut.pendings > 0
  /\ fut.task.buffer = <<1, 2, 33>>

\* The bytes the sink has received from the running task, in order.
Received == SubSeq(sink.written, fut.start + 1, Len(sink.written))

\* The bytes a put task is to deliver: the synchronous encoding of the
\* varint, or the buffer.
Intended ==
  IF fut.op = "put_varint" THEN Vec_put_varint(Vec_new, fut.arg).writer.buffer
  ELSE fut.arg

PutTask == fut.op \in {"put_varint", "put_buffer"}

\* C18: under every schedule of suspensions and partial writes the sink has
\* received, in order and without gaps or duplicates, the first offset bytes
\* of the synchronous encoding of the varint (of the buffer); on completion
\* it has received exactly all of them, and put_varint returns the number of
\* bytes written, the varint's encoded size.
C18_PutDeliversExactly ==
  PutTask =>
    /\ Received = SubSeq(Intended, 1, fut.task.offset)
    /\ ret.tag = "Ready" /\ ret.val.tag = "Ok" =>
         /\ ~fut.live
         /\ Received = Intended
         /\ fut.op = "put_varint" =>
              ret.val.val = size(fut.arg) /\ ret.val.val = Len(Received)
         /\ fut.op = "put_buffer" => ret.val.val = <<>>

\* A 4-byte varint written in three partial writes with a suspension, after
\* a byte already in the sink.
C18_Witness ==
  /\ fut.op = "put_varint" /\ fut.arg = from_u32(16384)
  /\ sink.impl = "stream"
  /\ fut.start = 1
  /\ ret = Ready(Ok(4))
  /\ fut.reads = 3 /\ fut.pendings > 0
  /\ Received = <<128, 0, 64, 0>>

\* C19: once the sink has answered Ok(0) to a non-empty write of a put
\* task, the task has ended on that poll with the failed assertion: the
\* write was not counted, was not issued again, and the task did not
\* complete normally.
C19_ZeroWriteIsAssertion ==
  PutTask /\ sink.zeros > 0 =>
    /\ ~fut.live
    /\ ret = Panic
    /\ sink.zeros = 1

\* Without debug assertions: the sink answered Ok(0), the same write was
\* issued again in the loop and the put completed normally.
C19_Witness ==
  /\ fut.op = "put_buffer" /\ fut.arg = <<1>>
  /\ ~debug_assertions
  /\ sink.zeros = 1
  /\ ret = Ready(Ok(<<>>))
  /\ Received = <<1>>

GetTask == fut.op \in {"get_varint", "get_buffer"}

\* The two values an error kind is classified into.
Classified(kind) ==
  CASE kind = "NotConnected" -> Ready(Err("NotConnected"))
    [] OTHER -> Ready(Err("Closed"))

\* C20: once the source (the sink) has reported an error to a get (put)
\* task, the task has completed on that poll with NotConnected when the
\* error kind is NotConnected and with Closed for every other kind; it has
\* not asked the source (the sink) again.
C20_TransportErrorTerminal ==
  /\ GetTask /\ src.errors > 0 =>
       /\ ~fut.live
       /\ ret = Classified(src.term)
       /\ src.errors = 1
  /\ PutTask /\ sink.errors > 0 =>
       /\ ~fut.live
       /\ ret = Classified(sink.term)
       /\ sink.errors = 1

\* A sink that is not connected refuses the second byte of a 2-byte varint
\* after a suspension.
C20_Witness ==
  /\ fut.op = "put_varint" /\ fut.arg = from_u32(84)
  /\ sink.term = "NotConnected" /\ sink.room = 1
  /\ sink.errors = 1
  /\ fut.pendings > 0
  /\ Received = <<64>>
  /\ ret = Ready(Err("NotConnected"))

(***************************************************************************)
(* Error axes of read_async.                                               *)
(***************************************************************************)
\* What the synchronous decoder finds in the bytes the source delivered to
\* the task: the discriminant and the varint after it.
DeliveredVarint == BufferReader_get_varint(BufferReader_new(Delivered))
DeliveredSecond == BufferReader_get_varint(DeliveredVarint.reader)

\* The source closed (a zero-byte transfer) or failed during the task.
SourceEnded == src.zeros > 0 \/ src.errors > 0

IsContentErr(e) == ret = Ready(Err(StreamHeaderErr(e)))
IsIoErr == ret.tag = "Ready" /\ ret.val.tag = "Err" /\ ret.val.val.tag = "IO"

\* C21: read_async never conflates the content axis and the I/O axis.  A
\* content error is returned only when the source delivered completely every
\* varint the decision rests on (the discriminant for UnknownStream, the
\* discriminant and the session id for InvalidSessionId) and neither closed
\* nor failed; an I/O error is returned exactly when the source closed or
\* failed, which happens only before the discriminant or the required
\* session id is complete, and it carries the classification of that event.
C21_AxesNotConflated ==
  Completed("read_async") /\ ret.tag = "Ready" =>
    /\ IsContentErr("UnknownStream") =>
         /\ ~SourceEnded
         /\ DeliveredVarint.res.tag = "Some"
         /\ parse(DeliveredVarint.res.val) = None
         /\ DeliveredVarint.reader.offset = Len(Delivered)
    /\ IsContentErr("InvalidSessionId") =>
         /\ ~SourceEnded
         /\ DeliveredVarint.res.tag = "Some"
         /\ DeliveredVarint.res.val = WEBTRANSPORT_STREAM
         /\ DeliveredSecond.res.tag = "Some"
         /\ DeliveredSecond.reader.offset = Len(Delivered)
    /\ IsIoErr <=> SourceEnded
    /\ IsIoErr =>
         /\ ret.val.val.val = (IF src.errors > 0 /\ src.term = "NotConnected"
                                 THEN "NotConnected" ELSE "Closed")
         /\ \/ DeliveredVarint.res.tag = "None"
            \/ /\ DeliveredVarint.res.val = WEBTRANSPORT_STREAM
               /\ DeliveredSecond.res.tag = "None"

\* C21 witness: the transport failed inside the session id, after the
\* WebTransport discriminant and the first bytes of an invalid session id
\* had been delivered; the result is the I/O error.
C21_Witness ==
  /\ Completed("read_async")
  /\ src.impl = "stream" /\ src.term = "NotConnected" /\ src.errors = 1
  /\ DeliveredVarint.res.tag = "Some"
  /\ DeliveredVarint.res.val = WEBTRANSPORT_STREAM
  /\ Len(Delivered) > DeliveredVarint.reader.offset
  /\ ret = Ready(Err(IO("NotConnected")))

(***************************************************************************)
(* Properties of the write side of the cursors.                            *)
(***************************************************************************)
\* The last operation was a put_varint or put_bytes on a writer of that type.
PutOn(impl) == last.op \in {"put_varint", "put_bytes"} /\ last.prew.impl = impl

\* The number of bytes the last put had to store.
PutLen == IF last.op = "put_varint" THEN size(last.len) ELSE Len(last.len)

\* The bytes are what the last put had to store: the given bytes, or size(v)
\* bytes that the decoder reads back as v.
IsPutOf(bytes) ==
  IF last.op = "put_bytes" THEN bytes = last.len
  ELSE /\ Len(bytes) = size(last.len)
       /\ BufferReader_get_varint(BufferReader_new(bytes)).res = Some(last.len)

\* C22: put_varint(v) and put_bytes(b) on a BufferWriter fail with
\* EndOfBuffer exactly when the capacity is less than size(v), resp. len(b);
\* on failure the offset and every byte of the buffer are unchanged; on
\* success exactly the encoded bytes are stored at buffer[offset..], the
\* rest of the buffer is unchanged and the offset advances by their length.
C22_WriteAllOrNothing ==
  PutOn("BufferWriter") =>
    /\ ~last.panic
    /\ (last.res = Err("EndOfBuffer")) <=> (capacity(last.prew) < PutLen)
    /\ last.res = Err("EndOfBuffer") => writer = last.prew
    /\ last.res # Err("EndOfBuffer") =>
         /\ last.res = Ok(<<>>)
         /\ writer.offset = last.prew.offset + PutLen
         /\ Len(writer.buffer) = Len(last.prew.buffer)
         /\ SubSeq(writer.buffer, 1, last.prew.offset)
              = SubSeq(last.prew.buffer, 1, last.prew.offset)
         /\ IsPutOf(SubSeq(writer.buffer, last.prew.offset + 1, writer.offset))
         /\ SubSeq(writer.buffer, writer.offset + 1, Len(writer.buffer))
              = SubSeq(last.prew.buffer, writer.offset + 1, Len(writer.buffer))

\* C22 witness: a 4-byte varint refused by a writer with one byte written
\* and three bytes of capacity left.
C22_Witness ==
  /\ PutOn("BufferWriter") /\ last.op = "put_varint"
  /\ size(last.len) = 4
  /\ last.prew.offset = 1 /\ capacity(last.prew) = 3
  /\ last.res = Err("EndOfBuffer")
  /\ writer = last.prew

\* What a BufferWriter over a fresh buffer of MAX_SIZE bytes holds after
\* put_varint(v): buffer_written().
FixedEncoding(v) ==
  LET w == BufferWriter_put_varint(BufferWriter_new(Zeros(MAX_SIZE)), v).writer
  IN  SubSeq(w.buffer, 1, w.offset)

\* The bytes the last put appended to the vector.
Appended == SubSeq(writer.buffer, Len(last.prew.buffer) + 1, Len(writer.buffer))

\* C23: put_varint and put_bytes on a Vec<u8> never fail.  For every prior
\* content and value the call returns Ok without panicking, the bytes stored
\* before are unchanged, and what is appended is exactly the varint's
\* encoding, size(v) bytes equal to what the fixed-capacity writer produces,
\* resp. exactly the given bytes.
C23_VecNeverFails ==
  PutOn("Vec") =>
    /\ last.res = Ok(<<>>)
    /\ ~last.panic
    /\ Len(writer.buffer) = Len(last.prew.buffer) + PutLen
    /\ SubSeq(writer.buffer, 1, Len(last.prew.buffer)) = last.prew.buffer
    /\ last.op = "put_varint" => Appended = FixedEncoding(last.len)
    /\ last.op = "put_bytes" => Appended = last.len

\* C23 witness: an 8-byte varint appended to a vector that held two bytes.
C23_Witness ==
  /\ PutOn("Vec") /\ last.op = "put_varint"
  /\ last.len = VARINT_MAX
  /\ Len(last.prew.buffer) = 2
  /\ Len(writer.buffer) = 10
  /\ last.res = Ok(<<>>)

\* C24: write_to_buffer returns Err(EndOfBuffer) exactly when the writer's
\* capacity is less than write_size(), and then the writer is not advanced
\* and nothing is written; otherwise it does not panic, stores exactly the
\* header's encoding at the offset and advances by exactly write_size().
C24_WriteToBufferAtomic ==
  last.op = "write_to_buffer" =>
    /\ ~last.panic
    /\ (last.res = Err("EndOfBuffer")) <=> (capacity(last.prew) < write_size(last.len))
    /\ last.res = Err("EndOfBuffer") => writer = last.prew
    /\ last.res # Err("EndOfBuffer") =>
         /\ last.res = Ok(<<>>)
         /\ writer.offset = last.prew.offset + write_size(last.len)
         /\ Len(writer.buffer) = Len(last.prew.buffer)
         /\ SubSeq(writer.buffer, 1, last.prew.offset)
              = SubSeq(last.prew.buffer, 1, last.prew.offset)
         /\ SubSeq(writer.buffer, last.prew.offset + 1, writer.offset) = Encoded(last.len)
         /\ SubSeq(writer.buffer, writer.offset + 1, Len(writer.buffer))
              = SubSeq(last.prew.buffer, writer.offset + 1, Len(writer.buffer))

\* C24 witness: a WebTransport header refused by a writer that has room for
\* the discriminant but not for the session id.
C24_Witness ==
  /\ last.op = "write_to_buffer"
  /\ last.len.kind = WebTransport
  /\ capacity(last.prew) >= size(kind_id(last.len.kind))
  /\ capacity(last.prew) < write_size(last.len)
  /\ last.prew.offset > 0
  /\ last.res = Err("EndOfBuffer")
  /\ writer = last.prew

(***************************************************************************)
(* The offset of the cursors.                                              *)
(***************************************************************************)
\* 0 <= offset <= len(buffer) and capacity() == len(buffer) - offset.
InRange(c) ==
  /\ 0 <= c.offset /\ c.offset <= Len(c.buffer)
  /\ capacity(c) = Len(c.buffer) - c.offset
  /\ capacity(c) = Len(buffer_remaining(c))

\* The last operation was on the parent reader (on the child, on the
\* writer) and succeeded.
ParentSucceeded ==
  \/ last.op \in {"get_varint", "get_bytes"} /\ last.res.tag = "Some"
  \/ last.op = "skip" /\ last.res = Ok(<<>>)
  \/ last.op = "commit" /\ ~last.panic
ChildSucceeded ==
  \/ last.op \in {"child.get_varint", "child.get_bytes"} /\ last.res.tag = "Some"
  \/ last.op = "child.skip" /\ last.res = Ok(<<>>)
WriterSucceeded ==
  last.op \in {"put_varint", "put_bytes"} /\ last.res = Ok(<<>>)

\* C26: on the read cursor, its child and the write cursor the offset stays
\* within 0..len(buffer) with capacity() == len(buffer) - offset; over every
\* get_varint, get_bytes, skip, child, commit, drop, put_varint and
\* put_bytes it never decreases and it changes only when the operation (or
\* the skip or commit) succeeded; skip(len) with len > capacity() fails and
\* leaves the offset where it was.
C26_OffsetInvariant ==
  /\ InRange(reader)
  /\ kid.alive => InRange(kid.reader)
  /\ writer.impl = "BufferWriter" => InRange(writer)
  /\ reader.buffer = last.pre.buffer
  /\ reader.offset >= last.pre.offset
  /\ reader.offset # last.pre.offset => ParentSucceeded
  /\ kid.alive /\ last.prekid.alive =>
       /\ kid.reader.buffer = last.prekid.reader.buffer
       /\ kid.reader.offset >= last.prekid.reader.offset
       /\ kid.reader.offset # last.prekid.reader.offset => ChildSucceeded
  /\ writer.impl = "BufferWriter" /\ last.op \notin {"write", "write_to_buffer"} =>
       /\ writer.offset >= last.prew.offset
       /\ writer.offset # last.prew.offset => WriterSucceeded
  /\ last.op = "skip" /\ last.len > capacity(last.pre) =>
       last.res = Err("EndOfBuffer") /\ reader = last.pre
  /\ last.op = "child.skip" /\ last.len > capacity(last.prekid.reader) =>
       last.res = Err("EndOfBuffer") /\ kid = last.prekid

\* C26 witness: a skip beyond the capacity, refused by a reader that had
\* already advanced.
C26_Witness ==
  /\ last.op = "skip"
  /\ last.pre.offset > 0
  /\ capacity(last.pre) > 0
  /\ last.len > capacity(last.pre)
  /\ last.res = Err("EndOfBuffer")
  /\ reader.offset = last.pre.offset

(***************************************************************************)
(* The empty case and the canonical samples.                               *)
(***************************************************************************)
\* The last poll of the task returned, and not Pending.
Returned == ret # None /\ ret # Pending

\* C25: nothing can be read from an empty source, and nothing panics.  On a
\* zero-length buffer get_varint and get_bytes(len), len >= 1, return None
\* and leave the reader as it was; put_varint and put_bytes of a non-empty
\* value into a zero-length buffer return EndOfBuffer; on an asynchronous
\* source without bytes get_varint and get_buffer with a non-empty
\* destination return nothing but Err(Closed), on the first poll when the
\* source is a slice.
C25_EmptyAlwaysFails ==
  /\ ~last.panic
  /\ last.op = "get_varint" /\ Len(last.pre.buffer) = 0 =>
       last.res = None /\ reader = last.pre
  /\ last.op = "get_bytes" /\ Len(last.pre.buffer) = 0 /\ last.len >= 1 =>
       last.res = None /\ reader = last.pre
  /\ last.op = "put_varint" /\ Len(last.prew.buffer) = 0 =>
       last.res = Err("EndOfBuffer") /\ writer = last.prew
  /\ last.op = "put_bytes" /\ Len(last.prew.buffer) = 0 /\ Len(last.len) >= 1 =>
       last.res = Err("EndOfBuffer") /\ writer = last.prew
  /\ Len(src.data) = 0 /\ (fut.op = "get_varint" \/ (fut.op = "get_buffer" /\ fut.arg >= 1)) =>
       /\ Returned => ret = Ready(Err("Closed")) /\ ~fut.live
       /\ src.impl = "slice" /\ ret # None => Returned
       /\ src.panics = 0

\* C25 witness: get_buffer with a destination of one byte on an empty
\* transport, suspended once and then completed with Closed.
C25_Witness ==
  /\ Len(src.data) = 0 /\ src.impl = "stream"
  /\ fut.op = "get_buffer" /\ fut.arg = 1
  /\ fut.pendings > 0
  /\ src.zeros = 1
  /\ ret = Ready(Err("Closed"))

\* buffer_writer.buffer_written()
buffer_written(w) == SubSeq(w.buffer, 1, w.offset)

\* The sink has room for n more bytes of the task.
HasRoom(n) == sink.impl = "Vec" \/ fut.start + n <= sink.room

\* C27: the four canonical samples decode exactly and encode identically,
\* through the cursors and through the tasks.  get_varint on a sample
\* returns its value and consumes the whole sample (offset = length,
\* capacity = 0); put_varint of the value into a buffer of MAX_SIZE bytes
\* writes exactly the sample's bytes; the get_varint task on a source that
\* holds the sample yields the value under every schedule, and the
\* put_varint task delivers the sample's bytes and returns their number.
C27_CanonicalSamples ==
  \A c \in VARINT_TEST_CASES :
    /\ last.op = "get_varint" /\ last.pre = BufferReader_new(c.bytes) =>
         /\ last.res = Some(c.value)
         /\ reader.offset = Len(c.bytes)
         /\ capacity(reader) = 0
    /\ last.op = "put_varint" /\ last.len = c.value
         /\ last.prew = BufferWriter_new(Zeros(MAX_SIZE)) =>
         /\ last.res = Ok(<<>>)
         /\ writer.offset = Len(c.bytes)
         /\ buffer_written(writer) = c.bytes
    /\ fut.op = "get_varint" /\ fut.start = 0 /\ src.data = c.bytes =>
         /\ src.panics = 0
         /\ Returned =>
              /\ ret = Ready(Ok(c.value))
              /\ src.pos = Len(c.bytes)
              /\ available(src) = 0
    /\ fut.op = "put_varint" /\ fut.arg = c.value /\ HasRoom(Len(c.bytes)) =>
         /\ Received = SubSeq(c.bytes, 1, fut.task.offset)
         /\ Returned =>
              /\ ret = Ready(Ok(Len(c.bytes)))
              /\ Received = c.bytes

\* C27 witness: the 8-byte sample delivered by a transport one byte at a
\* time, with a suspension, and decoded to 151288809941952652.
C27_Witness ==
  /\ Completed("get_varint") /\ fut.start = 0
  /\ src.impl = "stream"
  /\ src.data = <<194, 25, 124, 94, 255, 20, 232, 140>>
  /\ fut.reads = 8 /\ fut.pendings > 0
  /\ ret = Ready(Ok(<<2, 25, 124, 94, 255, 20, 232, 140>>))

(***************************************************************************)
(* The raw header read on content errors.                                  *)
(***************************************************************************)
\* The encoded length of the varint that starts at byte `at` (counted from
\* 0) of the buffer the last operation started on.
EncodedLenAt(at) == parse_size(last.pre.buffer[at + 1])

\* The encoded length of the discriminant the raw read started on.
DiscriminantLen == EncodedLenAt(last.pre.offset)

\* C28: the raw StreamHeader::read is not atomic on content errors.  When it
\* returns Some(Err(UnknownStream)) the reader has advanced by exactly the
\* encoded length of the discriminant; when it returns
\* Some(Err(InvalidSessionId)) it has advanced by exactly the encoded
\* lengths of the discriminant and of the session-id varint; the reader
\* continues after those bytes.
C28_RawReadAdvancesOnError ==
  last.op = "read" =>
    /\ last.res = Some(Err("UnknownStream")) =>
         /\ reader.buffer = last.pre.buffer
         /\ reader.offset = last.pre.offset + DiscriminantLen
         /\ buffer_remaining(reader)
              = SubSeq(buffer_remaining(last.pre), DiscriminantLen + 1,
                       capacity(last.pre))
    /\ last.res = Some(Err("InvalidSessionId")) =>
         /\ reader.buffer = last.pre.buffer
         /\ reader.offset
              = last.pre.offset + DiscriminantLen
                  + EncodedLenAt(last.pre.offset + DiscriminantLen)
         /\ reader.offset > last.pre.offset + DiscriminantLen

\* C28 witness: a raw read that started after one byte, took a 2-byte
\* WebTransport discriminant and an 8-byte session id, and rejected the
\* session id with bytes still left in the buffer.
C28_Witness ==
  /\ last.op = "read"
  /\ last.res = Some(Err("InvalidSessionId"))
  /\ last.pre.offset = 1
  /\ DiscriminantLen = 2
  /\ reader.offset = 11
  /\ capacity(reader) > 0

(***************************************************************************)
(* Cancellation and suspension of the tasks.                               *)
(***************************************************************************)
\* The step drops the pending task.
Dropping == fut.live /\ fut'.op = "dropped"

\* The step creates a task after a dropped one.
StartingAfterDrop == fut.op = "dropped" /\ fut'.op # "dropped"

\* C29: dropping a pending task does not roll back the transport.  The
\* drop leaves the source and the sink as they are, advanced by exactly the
\* k bytes the task had transferred; a task created afterwards starts with
\* empty scratch state at byte k of the stream, and a get_varint started
\* there takes the byte at k for the first byte of a varint.
C29_DropKeepsTransport ==
  /\ [][Dropping =>
          /\ src' = src /\ sink' = sink
          /\ GetTask => src.pos = fut.start + fut.task.offset
          /\ PutTask => Len(sink.written) = fut.start + fut.task.offset]_vars
  /\ [][StartingAfterDrop =>
          /\ src'.pos = src.pos /\ src'.data = src.data
          /\ sink'.written = sink.written
          /\ fut'.task.offset = 0
          /\ fut'.start = IF fut'.op \in {"get_varint", "get_buffer"}
                            THEN src.pos ELSE Len(sink.written)]_vars
  /\ [](fut.op = "get_varint" /\ fut.task.offset > 0 =>
          /\ fut.task.buffer[1] = src.data[fut.start + 1]
          /\ fut.task.varint_size = parse_size(src.data[fut.start + 1]))

\* C29 witness: a get_varint dropped while suspended after the first byte
\* of a 4-byte varint; the source stays advanced by that byte, so the next
\* task starts at the byte after it.
C29_Witness ==
  /\ fut.op = "dropped"
  /\ src.impl = "stream" /\ src.data = <<128, 33>>
  /\ fut.start = 0
  /\ fut.task = [buffer |-> <<128, 0, 0, 0, 0, 0, 0, 0>>, offset |-> 1,
                 varint_size |-> 4]
  /\ src.pos = 1
  /\ ret = None

\* One of the four tasks, and the source or sink it transfers with.
IoTask == GetTask \/ PutTask

TaskIo == IF GetTask THEN src ELSE sink

\* The range the task has still to transfer: the length of its next request.
Missing ==
  CASE fut.op = "get_varint" ->
         IF fut.task.offset = 0 THEN 1 ELSE fut.task.varint_size - fut.task.offset
    [] fut.op = "put_varint" -> fut.task.varint_size - fut.task.offset
    [] OTHER -> Len(fut.task.buffer) - fut.task.offset

\* The task's offset and accumulated bytes account for exactly what has been
\* transferred since it was created.
ProgressKept ==
  /\ GetTask =>
       /\ src.pos = fut.start + fut.task.offset
       /\ SubSeq(fut.task.buffer, 1, fut.task.offset) = Delivered
       /\ fut.op = "get_varint" /\ fut.task.offset > 0 =>
            fut.task.varint_size = parse_size(fut.task.buffer[1])
  /\ PutTask =>
       /\ Len(sink.written) = fut.start + fut.task.offset
       /\ Received = SubSeq(Intended, 1, fut.task.offset)

\* The outcomes of resuming the task in the current state.
Resume ==
  CASE fut.op = "get_varint" -> GetVarint_poll(fut.task, src)
    [] fut.op = "get_buffer" -> GetBuffer_poll(fut.task, src, 0)
    [] fut.op = "put_varint" -> PutVarint_poll(fut.task, sink, 0)
    [] OTHER -> PutBuffer_poll(fut.task, sink, 0)

\* C30: a resume of one of the four tasks returns Pending if and only if the
\* source (the sink) answered Pending to a transfer request of that resume;
\* the task then stays alive with its offset, target length and accumulated
\* bytes accounting for exactly the transfers made before the pending
\* request, which was for exactly the still-missing range; and a resume that
\* meets Pending at once leaves the task and the transport as they are and
\* has asked for that same range again.
C30_SuspensionKeepsProgress ==
  IoTask =>
    /\ ret.tag = "Pending" <=> TaskIo.pended.tag = "Some"
    /\ ret.tag = "Pending" =>
         /\ fut.live
         /\ Missing > 0
         /\ TaskIo.pended.val = Missing
         /\ ProgressKept
         /\ \A o \in Resume :
              o.ret.tag = "Pending" /\ o.reads = 0 =>
                /\ o.task = fut.task
                /\ o.io = TaskIo

\* C30 witness: a get_varint suspended after two of the four bytes of its
\* varint; the source was asked for the two missing bytes.
C30_Witness ==
  /\ fut.op = "get_varint" /\ fut.live
  /\ ret.tag = "Pending"
  /\ src.impl = "stream" /\ src.data = <<128, 33>>
  /\ fut.start = 0
  /\ fut.task = [buffer |-> <<128, 33, 0, 0, 0, 0, 0, 0>>, offset |-> 2,
                 varint_size |-> 4]
  /\ src.pos = 2
  /\ src.pended = Some(2)
  /\ fut.reads = 2

(***************************************************************************)
(* The in-memory byte-slice source.                                        *)
(***************************************************************************)
\* C31: poll_read on a slice with n remaining bytes and a caller buffer of m
\* bytes is always ready, without error and without panic, transfers the
\* first min(n, m) remaining bytes and advances the slice by that amount: it
\* has one answer, that transfer, and no task has seen it panic, fail or
\* suspend.
C31_SliceHonoursContract ==
  src.impl = "slice" =>
    /\ \A m \in 0..MaxBuf :
         poll_read(src, m) = {transfer(src, Min(available(src), m))}
    /\ src.panics = 0 /\ src.errors = 0 /\ src.pended = None

\* C31 witness: get_buffer with a destination of three bytes over a slice
\* of two ended in the panic of the slice's poll_read, nothing transferred.
C31_Witness ==
  /\ Completed("get_buffer")
  /\ src.impl = "slice" /\ src.data = <<1, 2>>
  /\ fut.arg = 3
  /\ src.pos = 0 /\ src.panics = 1
  /\ ret = Panic

(***************************************************************************)
(* The get-varint task.                                                    *)
(***************************************************************************)
\* C32: in every state of a get_varint task, offset = 0 implies
\* varint_size = 0; once offset > 0, varint_size is parse_size of the first
\* scratch byte, one of 1, 2, 4, 8, and offset <= varint_size <= MAX_SIZE;
\* the source has been advanced by exactly offset bytes, and a request it
\* answered Pending to was for 1 byte (first phase) or for exactly
\* varint_size - offset bytes; on success the task has taken exactly
\* varint_size bytes and every later byte is still in the source.
C32_GetVarintNoOverRead ==
  fut.op = "get_varint" =>
    /\ fut.task.offset = 0 => fut.task.varint_size = 0
    /\ fut.task.offset > 0 =>
         /\ fut.task.varint_size = parse_size(fut.task.buffer[1])
         /\ fut.task.varint_size \in {1, 2, 4, 8}
         /\ fut.task.offset <= fut.task.varint_size
         /\ fut.task.varint_size <= MAX_SIZE
    /\ src.pos = fut.start + fut.task.offset
    /\ src.pended.tag = "Some" =>
         src.pended.val = IF fut.task.offset = 0 THEN 1
                          ELSE fut.task.varint_size - fut.task.offset
    /\ ret.tag = "Ready" /\ ret.val.tag = "Ok" =>
         /\ fut.task.offset = fut.task.varint_size
         /\ src.pos = fut.start + fut.task.varint_size
         /\ available(src) = Len(src.data) - fut.start - fut.task.varint_size

\* C32 witness: a second get_varint on a transport of four bytes started at
\* the byte the first one left, took that one byte, and two bytes are still
\* available.
C32_Witness ==
  /\ Completed("get_varint")
  /\ src.impl = "stream" /\ src.data = <<1, 2, 33, 64>>
  /\ fut.start = 1 /\ fut.reads = 1
  /\ fut.task.varint_size = 1 /\ fut.task.offset = 1
  /\ ret = Ready(Ok(from_u32(2)))
  /\ src.pos = 2 /\ available(src) = 2

(***************************************************************************)
(* Termination of the tasks.                                               *)
(***************************************************************************)
\* The target length of the task.
Target ==
  IF fut.op \in {"get_varint", "put_varint"} THEN MAX_SIZE
  ELSE Len(fut.task.buffer)

\* The transfers of at least one byte the task has made.
Transfers ==
  IF PutTask /\ ~debug_assertions THEN fut.reads - sink.zeros ELSE fut.reads

\* C33: when the task keeps being resumed and the source (the sink) does
\* not answer Pending for ever, but transfers at least one byte, reports
\* closure with a zero-byte transfer or reports an error, each of
\* get_varint, get_buffer, put_varint and put_buffer eventually yields its
\* result (or is dropped by its owner), after at most target-length
\* transfers.
C33_TasksTerminate ==
  /\ [](IoTask => Transfers <= Target)
  /\ (IoTask /\ fut.live) ~> ~fut.live

\* C33 witness: without debug assertions, a put_buffer of one byte on a sink
\* that answers every write with a zero-byte transfer is in a poll that does
\* not return.
C33_Witness ==
  /\ fut.op = "put_buffer" /\ fut.arg = <<1>> /\ fut.live
  /\ ~debug_assertions
  /\ sink.faulty /\ sink.zeros = 1
  /\ ret = Hang
  /\ Received = <<>>

(***************************************************************************)
(* Stability of read_from_buffer under more data.                          *)
(***************************************************************************)
\* The reader r over the first k bytes of its buffer.
Truncated(r, k) == [r EXCEPT !.buffer = SubSeq(r.buffer, 1, k)]

\* The reader r with the bytes c arrived after its buffer.
Extended(r, c) == [r EXCEPT !.buffer = r.buffer \o c]

\* C34: the outcome of read_from_buffer is determined by a prefix.  When it
\* returned Some(r) on the remaining bytes b, it returns the same r on every
\* extension b \o c and leaves the reader at the same offset; when it
\* returned None on b, it returns None on every prefix of b.
C34_ReadFromBufferStable ==
  last.op = "read_from_buffer" =>
    /\ last.res.tag = "Some" =>
         \A c \in ShortInputs :
           LET more == read_from_buffer(Extended(last.pre, c))
           IN  /\ more.res = last.res
               /\ more.reader.offset = reader.offset
               /\ ~more.panic
    /\ last.res.tag = "None" =>
         \A k \in last.pre.offset..Len(last.pre.buffer) :
           LET less == read_from_buffer(Truncated(last.pre, k))
           IN  /\ less.res = None
               /\ less.reader.offset = last.pre.offset

\* C34 witness: a WebTransport header read with bytes left after it in the
\* buffer.
C34_Witness ==
  /\ last.op = "read_from_buffer"
  /\ last.res.tag = "Some" /\ last.res.val.tag = "Ok"
  /\ last.res.val.val.kind.tag = "WebTransport"
  /\ reader.offset > last.pre.offset
  /\ capacity(reader) > 0

(***************************************************************************)
(* The mapping between discriminants and stream kinds.                     *)
(***************************************************************************)
\* The discriminant a read started at: the varint at the reader's offset.
Discriminant == get_varint(last.pre).res

\* C35: 0x00 maps to Control, 0x02 to QPackEncoder, 0x03 to QPackDecoder and
\* 0x54 to WebTransport; none of the four constants is an exercise id; and
\* for every discriminant v a read has decoded, the kind of the header (if
\* any) is parse(v), and when parse accepts v, id(parse(v)) = v and
\* parse(id(k)) = k for the kind k it gave.
C35_DiscriminantBijection ==
  /\ parse(from_u32(0)) = Some(Control)
  /\ parse(from_u32(2)) = Some(QPackEncoder)
  /\ parse(from_u32(3)) = Some(QPackDecoder)
  /\ parse(from_u32(84)) = Some(WebTransport)
  /\ \A c \in {CONTROL_STREAM, QPACK_ENCODER_STREAM, QPACK_DECODER_STREAM,
                WEBTRANSPORT_STREAM} : ~is_id_exercise(c)
  /\ last.op = "read" /\ Discriminant.tag = "Some" =>
       LET v == Discriminant.val
           k == parse(v)
       IN  /\ k.tag = "None" <=> last.res = Some(Err("UnknownStream"))
           /\ last.res.tag = "Some" /\ last.res.val.tag = "Ok" =>
                k = Some(last.res.val.val.kind)
           /\ k.tag = "Some" =>
                /\ kind_id(k.val) = v
                /\ parse(kind_id(k.val)) = k

\* C35 witness: a read of the discriminant 0x03 in its 2-byte encoding gave
\* the QPackDecoder header.
C35_Witness ==
  /\ last.op = "read"
  /\ last.pre.buffer = <<64, 3, 0>> /\ last.pre.offset = 0
  /\ last.res.tag = "Some" /\ last.res.val.tag = "Ok"
  /\ last.res.val.val.kind = QPackDecoder
  /\ reader.offset = 2

(***************************************************************************)
(* Agreement of the two synchronous readers.                               *)
(***************************************************************************)
\* The bytes a BufferReader has not read yet.
Rest(r) == SubSeq(r.buffer, r.offset + 1, Len(r.buffer))

\* The last operation done on the byte-slice reader over the same bytes.
SliceStep ==
  IF last.op = "get_varint" THEN Slice_get_varint(Slice_new(Rest(last.pre)))
  ELSE Slice_get_bytes(Slice_new(Rest(last.pre)), last.len)

\* C36: after every get_varint and get_bytes(len) of a BufferReader, in
\* whatever state earlier calls left it, the same call on the byte slice
\* that holds the BufferReader's unread bytes gives the same result, value
\* or failure, without panic, and leaves the slice holding exactly the
\* BufferReader's unread bytes: it shrinks by what the offset grows.
C36_ReadersAgree ==
  last.op \in {"get_varint", "get_bytes"} =>
    /\ SliceStep.res.tag # "Panic"
    /\ SliceStep.res = last.res
    /\ SliceStep.reader.buffer = Rest(reader)
    /\ Len(Rest(last.pre)) - Len(SliceStep.reader.buffer)
         = reader.offset - last.pre.offset

\* C36 witness: a get_varint of a 2-byte varint after earlier reads, with
\* bytes left after it.
C36_Witness ==
  /\ last.op = "get_varint"
  /\ last.pre.offset > 0
  /\ last.res.tag = "Some"
  /\ reader.offset = last.pre.offset + 2
  /\ SliceStep.res = last.res
  /\ Len(Rest(reader)) > 0

====
